---- MODULE Spec2Model ----
(***************************************************************************)
(* The live markdown decoration engine of LiveMarkdownEditor.tsx: the      *)
(* inline span scanner, the block construct parsers, the document state    *)
(* walker (createDecorations) and the re-scan trigger of the live preview  *)
(* plugin, driven by the host editor's transactions.                       *)
(*                                                                         *)
(* Text is a sequence of one-character strings.  Offsets are those of the  *)
(* source (0-based): the character at offset i of t is t[i + 1].           *)
(***************************************************************************)
EXTENDS Integers, Sequences, FiniteSets, TLC

VARIABLES
    doc,                \* view.state.doc: the document text, "\n" between lines
    head,               \* view.state.selection.main.head
    cursorPos,          \* the value of cursorPositionField
    decorations,        \* the decorations of the plugin (the annotations in effect)
    lastSelectionLine,  \* the lastSelectionLine of the plugin
    rebuilt,            \* whether the last update (or the constructor) ran createDecorations
    docChanged,         \* update.docChanged of the last update the plugin saw
    selectionSet,       \* update.selectionSet of the last update the plugin saw
    blogs,              \* the blog registry handed to createLivePreviewPlugin (set of names)
    hasPublish,         \* whether a publish callback was handed to createLivePreviewPlugin
    crashed,            \* whether createDecorations threw in the plugin, which the host
                        \* then deactivates: it provides no decorations any more
    mounted,            \* whether the editor view exists (false after the cleanup of the effect)
    timer,              \* whether autoSaveTimerRef holds a pending timeout
    contentRef,         \* contentRef.current: the content last handed to onSave or taken from the host
    isSaving,           \* isSavingRef.current
    inFlight,           \* the onSave promises not yet settled: content, and whether the
                        \* debounced callback awaits it
    frames,             \* the number of requestAnimationFrame callbacks of scheduleSave not yet run
    lastOnSave,         \* the content of the latest onSave call (at first the initialContent)
    stored,             \* the content of the latest onSave call that resolved (at first the initialContent)
    pending             \* the publish handler suspended at its await, with its locals

\* the refs and promises of the component outside the view and the plugin
saveVars == <<contentRef, isSaving, inFlight, frames, lastOnSave, stored, pending>>

vars == <<doc, head, cursorPos, decorations, lastSelectionLine, rebuilt,
          docChanged, selectionSet, blogs, hasPublish, crashed,
          mounted, timer, contentRef, isSaving, inFlight, frames, lastOnSave, stored, pending>>

----------------------------------------------------------------------------
(* Characters and the character classes the regular expressions use.       *)

LowerLetters ==
    {"a", "b", "c", "d", "e", "f", "g", "h", "i", "j", "k", "l", "m",
     "n", "o", "p", "q", "r", "s", "t", "u", "v", "w", "x", "y", "z"}

UpperLetters ==
    {"A", "B", "C", "D", "E", "F", "G", "H", "I", "J", "K", "L", "M",
     "N", "O", "P", "Q", "R", "S", "T", "U", "V", "W", "X", "Y", "Z"}

Digits == {"0", "1", "2", "3", "4", "5", "6", "7", "8", "9"}

\* [a-zA-Z]
Letters == LowerLetters \cup UpperLetters

\* \w
WordChars == Letters \cup Digits \cup {"_"}

\* [a-zA-Z0-9_-]
TagChars == WordChars \cup {"-"}

\* \s, for the characters a line can hold (a line never holds "\n")
Whitespace == {" ", "\t"}

\* The backquote character (a string literal of the module cannot hold one)
Backquote == "bq"

\* String.prototype.toLowerCase on one character (the /i flag)
ToLower(c) ==
    CASE c = "A" -> "a" [] c = "B" -> "b" [] c = "C" -> "c" [] c = "D" -> "d"
      [] c = "E" -> "e" [] c = "F" -> "f" [] c = "G" -> "g" [] c = "H" -> "h"
      [] c = "I" -> "i" [] c = "J" -> "j" [] c = "K" -> "k" [] c = "L" -> "l"
      [] c = "M" -> "m" [] c = "N" -> "n" [] c = "O" -> "o" [] c = "P" -> "p"
      [] c = "Q" -> "q" [] c = "R" -> "r" [] c = "S" -> "s" [] c = "T" -> "t"
      [] c = "U" -> "u" [] c = "V" -> "v" [] c = "W" -> "w" [] c = "X" -> "x"
      [] c = "Y" -> "y" [] c = "Z" -> "z" [] OTHER -> c

\* text[i] of the source: the character at offset i, "" past either end
At(t, i) == IF i >= 0 /\ i < Len(t) THEN t[i + 1] ELSE ""

\* text.slice(a, b) for 0 <= a, b
Slice(t, a, b) ==
    LET hi == IF b > Len(t) THEN Len(t) ELSE b
    IN  IF a >= hi THEN <<>> ELSE SubSeq(t, a + 1, hi)

\* text.startsWith(p)
StartsWith(t, p) == Len(t) >= Len(p) /\ SubSeq(t, 1, Len(p)) = p

\* the length of the longest run of characters of S starting at offset i
RECURSIVE RunIn(_, _, _)
RunIn(t, i, S) ==
    IF i < Len(t) /\ t[i + 1] \in S THEN 1 + RunIn(t, i + 1, S) ELSE 0

\* the length of the longest run of characters not in S starting at offset i
RECURSIVE RunNotIn(_, _, _)
RunNotIn(t, i, S) ==
    IF i < Len(t) /\ t[i + 1] \notin S THEN 1 + RunNotIn(t, i + 1, S) ELSE 0

\* String.prototype.trim
Trim(t) ==
    LET lead == RunIn(t, 0, Whitespace)
        idx == {k \in 1..Len(t) : t[k] \notin Whitespace}
        last == IF idx = {} THEN 0 ELSE CHOOSE k \in idx : \A m \in idx : m <= k
    IN  IF idx = {} THEN <<>> ELSE SubSeq(t, lead + 1, last)

\* The loop while ((match = regex.exec(text)) !== null) of a /g regular
\* expression: lens[i + 1] is the length of the match that starts at offset i
\* (0: none); the matches are taken leftmost first, each search resuming at the
\* end of the match before.  The result is the sequence of match.index values.
RECURSIVE ExecAll(_, _)
ExecAll(lens, i) ==
    IF i >= Len(lens) THEN <<>>
    ELSE IF lens[i + 1] > 0 THEN <<i>> \o ExecAll(lens, i + lens[i + 1])
    ELSE ExecAll(lens, i + 1)

----------------------------------------------------------------------------
(* parseInlineElements: the regular expressions, as match lengths.         *)

\* /<m><m>([^<m>]+)<m><m>/ at offset i, for m one of * _ ~ : the match length, 0 if none
DoubledLen(t, i, m) ==
    LET r == RunNotIn(t, i + 2, {m})
    IN  IF At(t, i) = m /\ At(t, i + 1) = m /\ r >= 1
           /\ At(t, i + 2 + r) = m /\ At(t, i + 3 + r) = m
        THEN r + 4 ELSE 0

\* /(?<!\*)\*([^*]+)\*(?!\*)/ at offset i
ItalicLen(t, i) ==
    LET r == RunNotIn(t, i + 1, {"*"})
    IN  IF At(t, i - 1) # "*" /\ At(t, i) = "*" /\ r >= 1
           /\ At(t, i + 1 + r) = "*" /\ At(t, i + 2 + r) # "*"
        THEN r + 2 ELSE 0

\* /(?<![_\w])_([^_]+)_(?![_\w])/ at offset i
ItalicUnderscoreLen(t, i) ==
    LET r == RunNotIn(t, i + 1, {"_"})
    IN  IF At(t, i - 1) \notin WordChars /\ At(t, i) = "_" /\ r >= 1
           /\ At(t, i + 1 + r) = "_" /\ At(t, i + 2 + r) \notin WordChars
        THEN r + 2 ELSE 0

\* the inline code pattern (a backquote, [^backquote]+, a backquote) at offset i
CodeLen(t, i) ==
    LET r == RunNotIn(t, i + 1, {Backquote})
    IN  IF At(t, i) = Backquote /\ r >= 1 /\ At(t, i + 1 + r) = Backquote THEN r + 2 ELSE 0

\* /\[([^\]]+)\]\(([^)]+)\)/ at offset i: the lengths of the link text and of the url
LinkTextLen(t, i) == RunNotIn(t, i + 1, {"]"})

LinkUrlLen(t, i) == RunNotIn(t, i + 3 + LinkTextLen(t, i), {")"})

LinkLen(t, i) ==
    LET r1 == LinkTextLen(t, i)
        r2 == LinkUrlLen(t, i)
    IN  IF At(t, i) = "[" /\ r1 >= 1 /\ At(t, i + 1 + r1) = "]"
           /\ At(t, i + 2 + r1) = "(" /\ r2 >= 1 /\ At(t, i + 3 + r1 + r2) = ")"
        THEN r1 + r2 + 4 ELSE 0

\* /(^|\s)(#[a-zA-Z0-9_-]+)/ at offset i: the length of group 1 when it matches, else -1.
\* The alternative ^ is tried first and holds at offset 0 only.
TagPrefixLen(t, i) ==
    IF i = 0 /\ At(t, 0) = "#" /\ RunIn(t, 1, TagChars) >= 1 THEN 0
    ELSE IF At(t, i) \in Whitespace /\ At(t, i + 1) = "#" /\ RunIn(t, i + 2, TagChars) >= 1
    THEN 1 ELSE -1

TagLen(t, i) ==
    LET p == TagPrefixLen(t, i)
    IN  IF p < 0 THEN 0 ELSE p + 1 + RunIn(t, i + p + 1, TagChars)

\* /<m><m>([^<m>]*)$/ at offset i, for m one of * ~
UnclosedDoubledLen(t, i, m) ==
    IF At(t, i) = m /\ At(t, i + 1) = m /\ i + 2 + RunNotIn(t, i + 2, {m}) = Len(t)
    THEN Len(t) - i ELSE 0

\* /(?<!\*)\*(?!\*)([^*]*)$/ at offset i
UnclosedItalicLen(t, i) ==
    IF At(t, i - 1) # "*" /\ At(t, i) = "*" /\ At(t, i + 1) # "*"
       /\ i + 1 + RunNotIn(t, i + 1, {"*"}) = Len(t)
    THEN Len(t) - i ELSE 0

\* the unclosed inline code pattern (a backquote, [^backquote]*, $) at offset i
UnclosedCodeLen(t, i) ==
    IF At(t, i) = Backquote /\ i + 1 + RunNotIn(t, i + 1, {Backquote}) = Len(t)
    THEN Len(t) - i ELSE 0

\* A MarkdownElement
Element(type, from, to, openTo, closeFrom, linkUrl) ==
    [type |-> type, from |-> from, to |-> to,
     openMarker |-> [from |-> from, to |-> openTo],
     closeMarker |-> [from |-> closeFrom, to |-> to],
     linkUrl |-> linkUrl]

\* a closed span whose two markers are w characters wide
ClosedElement(type, lineFrom, idx, len, w) ==
    Element(type, lineFrom + idx, lineFrom + idx + len,
            lineFrom + idx + w, lineFrom + idx + len - w, <<>>)

\* an unclosed span: from the marker (w wide) to the end of the line, no close marker
UnclosedElement(type, lineFrom, idx, textLen, w) ==
    Element(type, lineFrom + idx, lineFrom + textLen,
            lineFrom + idx + w, lineFrom + textLen, <<>>)

\* overlapsWithBold with the overlap test left out: no italic match is dropped
overlapsWithBoldNever(elements, from, to) == FALSE

\* const overlapsWithBold = elements.some(el => el.type === bold && !(to <= el.from || from >= el.to))
overlapsWithBold(elements, from, to) ==
    \E k \in 1..Len(elements) :
        /\ elements[k].type = "bold"
        /\ ~(to <= elements[k].from \/ from >= elements[k].to)

\* alreadyCovered with the test left out: every unclosed match with content is pushed
alreadyCoveredNever(elements, types, from) == FALSE

\* const alreadyCovered = elements.some(el => <type in types> && el.from <= from && el.to >= from)
alreadyCovered(elements, types, from) ==
    \E k \in 1..Len(elements) :
        /\ elements[k].type \in types
        /\ elements[k].from <= from
        /\ elements[k].to >= from

\* the elements one closed-pattern loop pushes, in match order
RECURSIVE ClosedMatches(_, _, _, _, _, _)
ClosedMatches(type, lineFrom, lens, idxs, w, k) ==
    IF k > Len(idxs) THEN <<>>
    ELSE <<ClosedElement(type, lineFrom, idxs[k], lens[idxs[k] + 1], w)>>
         \o ClosedMatches(type, lineFrom, lens, idxs, w, k + 1)

ClosedLoop(type, lineFrom, lens, w) ==
    ClosedMatches(type, lineFrom, lens, ExecAll(lens, 0), w, 1)

\* the italic (asterisk) loop: a match overlapping a bold element is dropped
RECURSIVE ItalicMatches(_, _, _, _, _)
ItalicMatches(elements, lineFrom, lens, idxs, k) ==
    IF k > Len(idxs) THEN elements
    ELSE LET from == lineFrom + idxs[k]
             to == from + lens[idxs[k] + 1]
         IN  ItalicMatches(
                 IF overlapsWithBold(elements, from, to) THEN elements
                 ELSE Append(elements, Element("italic", from, to, from + 1, to - 1, <<>>)),
                 lineFrom, lens, idxs, k + 1)

\* the links loop
RECURSIVE LinkMatches(_, _, _, _, _)
LinkMatches(t, lineFrom, lens, idxs, k) ==
    IF k > Len(idxs) THEN <<>>
    ELSE LET i == idxs[k]
             fullFrom == lineFrom + i
             fullTo == fullFrom + lens[i + 1]
             textEnd == fullFrom + 1 + LinkTextLen(t, i)
             linkUrl == Slice(t, i + 3 + LinkTextLen(t, i), i + 3 + LinkTextLen(t, i) + LinkUrlLen(t, i))
         IN  <<Element("link", fullFrom, fullTo, fullFrom + 1, textEnd, linkUrl)>>
             \o LinkMatches(t, lineFrom, lens, idxs, k + 1)

\* the tags loop
RECURSIVE TagMatches(_, _, _, _, _)
TagMatches(t, lineFrom, lens, idxs, k) ==
    IF k > Len(idxs) THEN <<>>
    ELSE LET i == idxs[k]
             tagStart == lineFrom + i + TagPrefixLen(t, i)
             tagEnd == lineFrom + i + lens[i + 1]
         IN  <<Element("tag", tagStart, tagEnd, tagStart, tagEnd, <<>>)>>
             \o TagMatches(t, lineFrom, lens, idxs, k + 1)

\* one unclosed-pattern loop: the element it pushes for each match that is not
\* already covered and has content (match[1].length > 0)
RECURSIVE UnclosedMatches(_, _, _, _, _, _, _, _)
UnclosedMatches(elements, type, covering, lineFrom, textLen, idxs, w, k) ==
    IF k > Len(idxs) THEN elements
    ELSE LET from == lineFrom + idxs[k]
             contentLen == textLen - idxs[k] - w
         IN  UnclosedMatches(
                 IF ~alreadyCovered(elements, covering, from) /\ contentLen > 0
                 THEN Append(elements, UnclosedElement(type, lineFrom, idxs[k], textLen, w))
                 ELSE elements,
                 type, covering, lineFrom, textLen, idxs, w, k + 1)

Lens1(t, m) == [k \in 1..Len(t) |-> DoubledLen(t, k - 1, m)]

\* the closed patterns of parseInlineElements, in the order of the source
ClosedElements(text, lineFrom) ==
    LET bold == ClosedLoop("bold", lineFrom, Lens1(text, "*"), 2)
        boldU == ClosedLoop("bold", lineFrom, Lens1(text, "_"), 2)
        itLens == [k \in 1..Len(text) |-> ItalicLen(text, k - 1)]
        withItalic == ItalicMatches(bold \o boldU, lineFrom, itLens, ExecAll(itLens, 0), 1)
        itU == ClosedLoop("italic", lineFrom,
                          [k \in 1..Len(text) |-> ItalicUnderscoreLen(text, k - 1)], 1)
        strike == ClosedLoop("strikethrough", lineFrom, Lens1(text, "~"), 2)
        code == ClosedLoop("code", lineFrom, [k \in 1..Len(text) |-> CodeLen(text, k - 1)], 1)
        linkLens == [k \in 1..Len(text) |-> LinkLen(text, k - 1)]
        links == LinkMatches(text, lineFrom, linkLens, ExecAll(linkLens, 0), 1)
        tagLens == [k \in 1..Len(text) |-> TagLen(text, k - 1)]
        tags == TagMatches(text, lineFrom, tagLens, ExecAll(tagLens, 0), 1)
    IN  withItalic \o itU \o strike \o code \o links \o tags

\* function parseInlineElements(text, lineFrom): MarkdownElement[]
parseInlineElements(text, lineFrom) ==
    LET n == Len(text)
        closed == ClosedElements(text, lineFrom)
        ubLens == [k \in 1..n |-> UnclosedDoubledLen(text, k - 1, "*")]
        e1 == UnclosedMatches(closed, "bold", {"bold"}, lineFrom, n, ExecAll(ubLens, 0), 2, 1)
        uiLens == [k \in 1..n |-> UnclosedItalicLen(text, k - 1)]
        e2 == UnclosedMatches(e1, "italic", {"bold", "italic"}, lineFrom, n, ExecAll(uiLens, 0), 1, 1)
        usLens == [k \in 1..n |-> UnclosedDoubledLen(text, k - 1, "~")]
        e3 == UnclosedMatches(e2, "strikethrough", {"strikethrough"}, lineFrom, n, ExecAll(usLens, 0), 2, 1)
        ucLens == [k \in 1..n |-> UnclosedCodeLen(text, k - 1)]
        e4 == UnclosedMatches(e3, "code", {"code"}, lineFrom, n, ExecAll(ucLens, 0), 1, 1)
    IN  e4

----------------------------------------------------------------------------
(* The block construct parsers.                                            *)

\* the value null
NoElement == [type |-> "none"]

\* the number of leading # characters
Hashes(text) == RunIn(text, 0, {"#"})

\* text.match(/^#{1}[a-zA-Z0-9_-]+$/)
isTagLike(text) ==
    /\ At(text, 0) = "#"
    /\ Len(text) >= 2
    /\ 1 + RunIn(text, 1, TagChars) = Len(text)

\* parseHeaderElement with the isTagLike test left out
parseHeaderElementNoTagCheck(text, lineFrom) ==
    LET h == Hashes(text)
        ws == RunIn(text, h, Whitespace)
        level == IF h > 6 THEN 6 ELSE h
    IN  IF h >= 1 /\ h <= 6 /\ ws >= 1
        THEN [type |-> "header", level |-> h, from |-> lineFrom, to |-> lineFrom + Len(text),
              markerFrom |-> lineFrom, markerTo |-> lineFrom + h + ws, isComplete |-> TRUE]
        ELSE IF h >= 1
        THEN [type |-> "header", level |-> level, from |-> lineFrom,
              to |-> lineFrom + Len(text), markerFrom |-> lineFrom,
              markerTo |-> lineFrom + level, isComplete |-> FALSE]
        ELSE NoElement

\* function parseHeaderElement(text, lineFrom): HeaderElement | null
\*   completeMatch   = text.match(/^(#{1,6})\s+/)
\*   incompleteMatch = text.match(/^(#{1,6})(?=\S|$)/)
parseHeaderElement(text, lineFrom) ==
    LET h == Hashes(text)
        ws == RunIn(text, h, Whitespace)
        level == IF h > 6 THEN 6 ELSE h
    IN  IF h >= 1 /\ h <= 6 /\ ws >= 1
        THEN [type |-> "header", level |-> h, from |-> lineFrom, to |-> lineFrom + Len(text),
              markerFrom |-> lineFrom, markerTo |-> lineFrom + h + ws, isComplete |-> TRUE]
        ELSE IF h >= 1
        THEN IF isTagLike(text) THEN NoElement
             ELSE [type |-> "header", level |-> level, from |-> lineFrom,
                   to |-> lineFrom + Len(text), markerFrom |-> lineFrom,
                   markerTo |-> lineFrom + level, isComplete |-> FALSE]
        ELSE NoElement

\* the length of the match of /^(\s*)([-*+])\s+/, 0 if none
BulletLen(text) ==
    LET w == RunIn(text, 0, Whitespace)
        s == RunIn(text, w + 1, Whitespace)
    IN  IF At(text, w) \in {"-", "*", "+"} /\ s >= 1 THEN w + 1 + s ELSE 0

\* the length of the match of /^(\s*)([-*+])\s+\[([ xX])\]\s+/, 0 if none
TaskLen(text) ==
    LET b == BulletLen(text)
        s == RunIn(text, b + 3, Whitespace)
    IN  IF b > 0 /\ At(text, b) = "[" /\ At(text, b + 1) \in {" ", "x", "X"}
           /\ At(text, b + 2) = "]" /\ s >= 1
        THEN b + 3 + s ELSE 0

\* the length of the match of /^(\s*)(\d+)\.\s+/, 0 if none
OrderedLen(text) ==
    LET w == RunIn(text, 0, Whitespace)
        d == RunIn(text, w, Digits)
        s == RunIn(text, w + d + 1, Whitespace)
    IN  IF d >= 1 /\ At(text, w + d) = "." /\ s >= 1 THEN w + d + 1 + s ELSE 0

\* the list element with the leading whitespace counted into the marker
ListElementNoIndent(listType, checked, text, lineFrom, matchLen) ==
    [type |-> "list", listType |-> listType, checked |-> checked,
     from |-> lineFrom, to |-> lineFrom + Len(text),
     markerFrom |-> lineFrom,
     markerTo |-> lineFrom + matchLen,
     indent |-> 0]

\* the object literal parseListElement returns: taskMatch[1], ulMatch[1] and
\* olMatch[1] are the leading whitespace, match[0] the whole match
ListElement(listType, checked, text, lineFrom, matchLen) ==
    [type |-> "list", listType |-> listType, checked |-> checked,
     from |-> lineFrom, to |-> lineFrom + Len(text),
     markerFrom |-> lineFrom + RunIn(text, 0, Whitespace),
     markerTo |-> lineFrom + matchLen,
     indent |-> RunIn(text, 0, Whitespace)]

\* function parseListElement(text, lineFrom): ListElement | null
parseListElement(text, lineFrom) ==
    IF TaskLen(text) > 0
    THEN ListElement("task", ToLower(At(text, BulletLen(text) + 1)) = "x",
                     text, lineFrom, TaskLen(text))
    ELSE IF BulletLen(text) > 0
    THEN ListElement("ul", FALSE, text, lineFrom, BulletLen(text))
    ELSE IF OrderedLen(text) > 0
    THEN ListElement("ol", FALSE, text, lineFrom, OrderedLen(text))
    ELSE NoElement

\* function parseBlockquoteElement(text, lineFrom): BlockquoteElement | null
\*   text.match(/^>\s*/)
parseBlockquoteElement(text, lineFrom) ==
    IF At(text, 0) = ">"
    THEN [type |-> "blockquote", from |-> lineFrom, to |-> lineFrom + Len(text),
          markerFrom |-> lineFrom, markerTo |-> lineFrom + 1 + RunIn(text, 1, Whitespace)]
    ELSE NoElement

----------------------------------------------------------------------------
(* The document: lines and positions (the Text of the host editor).        *)

\* the lines of the document from offset start on: doc.line(i) has from, to, text
RECURSIVE LinesFrom(_, _)
LinesFrom(d, start) ==
    LET r == RunNotIn(d, start, {"\n"})
        line == [from |-> start, to |-> start + r, text |-> Slice(d, start, start + r)]
    IN  IF start + r < Len(d) THEN <<line>> \o LinesFrom(d, start + r + 1) ELSE <<line>>

\* doc.line(1) .. doc.line(doc.lines)
Lines(d) == LinesFrom(d, 0)

\* doc.lineAt(pos).number
LineNumberAt(d, pos) == 1 + Cardinality({k \in 1..Len(d) : k <= pos /\ d[k] = "\n"})

----------------------------------------------------------------------------
(* Decorations (annotations): Range<Decoration> values.                    *)

NoText == <<>>

\* kind: mark, replace, line or widget.  class: the class of a mark or line
\* decoration.  widget: the widget class of a replace or widget decoration.
\* num, hasPublish, published, text, text2: the attributes and widget fields.
Deco(kind, from, to, class, widget, num, hasPub, published, text, text2) ==
    [kind |-> kind, from |-> from, to |-> to, class |-> class, widget |-> widget,
     num |-> num, hasPublish |-> hasPub, published |-> published,
     text |-> text, text2 |-> text2]

\* Decoration.mark({ class }).range(from, to)
Mark(class, from, to) == Deco("mark", from, to, class, "", 0, FALSE, FALSE, NoText, NoText)

\* Decoration.mark({ class, attributes: { data-url or data-tag: text } }).range(from, to)
MarkAttr(class, text, from, to) ==
    Deco("mark", from, to, class, "", 0, FALSE, FALSE, text, NoText)

\* Decoration.line({ class }).range(from); num is data-indent for a bullet
LineDeco(class, num, from) ==
    Deco("line", from, from, class, "", num, FALSE, FALSE, NoText, NoText)

\* Decoration.replace({ widget }).range(from, to); widget "" is Decoration.replace({})
Replace(widget, num, hasPub, published, text, text2, from, to) ==
    Deco("replace", from, to, "", widget, num, hasPub, published, text, text2)

\* Decoration.widget({ widget: new AtPostRocketWidget(i, blogName, isPublished), side: 1 }).range(pos)
RocketWidget(i, blogName, isPublished, pos) ==
    Deco("widget", pos, pos, "", "AtPostRocketWidget", i, FALSE, isPublished, blogName, NoText)

\* cm-header cm-header-${level}
HeaderClass(level) ==
    <<"cm-header cm-header-1", "cm-header cm-header-2", "cm-header cm-header-3",
      "cm-header cm-header-4", "cm-header cm-header-5", "cm-header cm-header-6">>[level]

\* cm-header cm-header-${level} cm-header-marker
HeaderMarkerClass(level) ==
    <<"cm-header cm-header-1 cm-header-marker", "cm-header cm-header-2 cm-header-marker",
      "cm-header cm-header-3 cm-header-marker", "cm-header cm-header-4 cm-header-marker",
      "cm-header cm-header-5 cm-header-marker", "cm-header cm-header-6 cm-header-marker">>[level]

\* the class of the content mark of an inline element
InlineClass(type) ==
    CASE type = "bold" -> "cm-bold"
      [] type = "italic" -> "cm-italic"
      [] type = "strikethrough" -> "cm-strikethrough"
      [] type = "code" -> "cm-inline-code"
      [] type = "link" -> "cm-link"
      [] OTHER -> "cm-tag-link"

----------------------------------------------------------------------------
(* The line tests of createDecorations.                                    *)

Word_published == <<"p", "u", "b", "l", "i", "s", "h", "e", "d">>
Word_true == <<"t", "r", "u", "e">>
Word_post == <<"p", "o", "s", "t">>
TripleEquals == <<"=", "=", "=">>
TripleDash == <<"-", "-", "-">>
Fence == <<Backquote, Backquote, Backquote>>

LowerCase(t) == [k \in 1..Len(t) |-> ToLower(t[k])]

\* the test of the metadata line without the whitespace after the word
IsPublishedMetaLinePrefixOnly(text) ==
    StartsWith(LowerCase(text), <<"@">> \o Word_published)

\* lineText.match(/^@published\s/i)
IsPublishedMetaLine(text) ==
    /\ StartsWith(LowerCase(text), <<"@">> \o Word_published)
    /\ At(text, 10) \in Whitespace

\* checkLine.match(/^@published\s+true/i)
IsAtPublishedTrue(text) ==
    LET ws == RunIn(text, 10, Whitespace)
    IN  /\ StartsWith(LowerCase(text), <<"@">> \o Word_published)
        /\ ws >= 1
        /\ StartsWith(Slice(LowerCase(text), 10 + ws, Len(text)), Word_true)

\* checkLine.match(/^published:\s*true/), checkLine the trimmed line
IsPublishedTrue(trimmed) ==
    /\ StartsWith(trimmed, Word_published \o <<":">>)
    /\ StartsWith(Slice(trimmed, 10 + RunIn(trimmed, 10, Whitespace), Len(trimmed)), Word_true)

\* lineText.match(/^@(.+)\s+post\s*$/): the offset of the word post, -1 if no match.
\* The greedy (.+) leaves one whitespace character to \s+.
AtPostIndex(text) ==
    LET t == Trim(text)
        lead == RunIn(text, 0, Whitespace)
        q == lead + Len(t) - 4
    IN  IF /\ At(text, 0) = "@"
           /\ Len(t) >= 4
           /\ Slice(text, q, q + 4) = Word_post
           /\ At(text, q - 1) \in Whitespace
           /\ q - 1 >= 2
        THEN q ELSE -1

\* atPostMatch[1]
AtPostName(text) == Slice(text, 1, AtPostIndex(text) - 1)

\* lineText.match(/^#[a-zA-Z]/)
IsHashLetter(text) == At(text, 0) = "#" /\ At(text, 1) \in Letters

\* lineText.match(/^@[a-zA-Z]/)
IsAtField(text) == At(text, 0) = "@" /\ At(text, 1) \in Letters

\* /^(-{3,}|\*{3,}|_{3,})$/.test(lineText.trim())
IsHorizontalRule(text) ==
    LET t == Trim(text)
    IN  /\ Len(t) >= 3
        /\ \E m \in {"-", "*", "_"} : RunIn(t, 0, {m}) = Len(t)

\* lineText.match(/^!\[([^\]]*)\]\(([^)]+)\)$/): the lengths of alt and of url
ImageAltLen(text) == RunNotIn(text, 2, {"]"})

ImageUrlLen(text) == RunNotIn(text, 4 + ImageAltLen(text), {")"})

IsImage(text) ==
    LET a == ImageAltLen(text)
        u == ImageUrlLen(text)
    IN  /\ At(text, 0) = "!" /\ At(text, 1) = "["
        /\ At(text, 2 + a) = "]" /\ At(text, 3 + a) = "("
        /\ u >= 1 /\ At(text, 4 + a + u) = ")"
        /\ 5 + a + u = Len(text)

----------------------------------------------------------------------------
(* createDecorations: the document state walker.                           *)

\* the scan state at the top of createDecorations
WalkerInit ==
    [inCodeBlock |-> FALSE, inBlogBlock |-> FALSE, inBlogFrontmatter |-> FALSE,
     blogFrontmatterDashCount |-> 0, blogBlockStartLine |-> -1,
     inAtPost |-> FALSE, atPostBlogName |-> NoText, atPostStartLine |-> -1]

\* the lookahead of an opening === without its break at the next ===
RECURSIVE BlockIsPublishedNoBreak(_, _)
BlockIsPublishedNoBreak(lines, j) ==
    IF j > Len(lines) THEN FALSE
    ELSE IF IsPublishedTrue(Trim(lines[j].text)) THEN TRUE
    ELSE BlockIsPublishedNoBreak(lines, j + 1)

\* the lookahead of an opening ===: whether published: true lies before the next ===
RECURSIVE BlockIsPublished(_, _)
BlockIsPublished(lines, j) ==
    IF j > Len(lines) THEN FALSE
    ELSE LET checkLine == Trim(lines[j].text)
         IN  IF checkLine = TripleEquals THEN FALSE
             ELSE IF IsPublishedTrue(checkLine) THEN TRUE
             ELSE BlockIsPublished(lines, j + 1)

\* the lookahead of a pseudo-post opener: whether @published true lies before the end
RECURSIVE AtPostIsPublished(_, _)
AtPostIsPublished(lines, j) ==
    IF j > Len(lines) THEN FALSE
    ELSE LET checkLine == lines[j].text
         IN  IF Trim(checkLine) = TripleDash \/ IsHashLetter(checkLine) THEN FALSE
             ELSE IF IsAtPublishedTrue(checkLine) THEN TRUE
             ELSE AtPostIsPublished(lines, j + 1)

\* the decorations of a header with the markers of a complete header hidden
\* wherever the cursor is
HeaderDecosAlwaysHidden(header, cursorOnThisLine) ==
    IF header.type # "header" THEN <<>>
    ELSE (IF header.markerTo < header.to
          THEN <<Mark(HeaderClass(header.level), header.markerTo, header.to)>>
          ELSE <<>>)
         \o (IF header.isComplete
             THEN <<Mark("cm-hidden-marker", header.markerFrom, header.markerTo)>>
             ELSE <<Mark(HeaderMarkerClass(header.level), header.markerFrom, header.markerTo)>>)

\* the decorations of a header
HeaderDecos(header, cursorOnThisLine) ==
    IF header.type # "header" THEN <<>>
    ELSE (IF header.markerTo < header.to
          THEN <<Mark(HeaderClass(header.level), header.markerTo, header.to)>>
          ELSE <<>>)
         \o (IF header.isComplete /\ ~cursorOnThisLine
             THEN <<Mark("cm-hidden-marker", header.markerFrom, header.markerTo)>>
             ELSE <<Mark(HeaderMarkerClass(header.level), header.markerFrom, header.markerTo)>>)

\* the decorations of a list item
ListDecos(listEl, cursor, lineFrom) ==
    IF listEl.type # "list" THEN <<>>
    ELSE (IF ~(cursor >= listEl.markerFrom /\ cursor <= listEl.markerTo)
          THEN <<Mark("cm-hidden-marker", listEl.markerFrom, listEl.markerTo)>>
          ELSE <<>>)
         \o (IF listEl.listType = "ul"
             THEN <<LineDeco("cm-list-bullet", listEl.indent, lineFrom)>>
             ELSE IF listEl.listType = "ol"
             THEN <<LineDeco("cm-list-number", 0, lineFrom)>>
             ELSE <<LineDeco(IF listEl.checked THEN "cm-list-task-checked"
                             ELSE "cm-list-task-unchecked", 0, lineFrom)>>)

\* the decorations of a blockquote
BlockquoteDecos(blockquote, cursor, lineFrom) ==
    IF blockquote.type # "blockquote" THEN <<>>
    ELSE (IF ~(cursor >= blockquote.markerFrom /\ cursor <= blockquote.markerTo)
          THEN <<Mark("cm-hidden-marker", blockquote.markerFrom, blockquote.markerTo)>>
          ELSE <<>>)
         \o <<LineDeco("cm-blockquote", 0, lineFrom)>>

\* the decorations of one inline element with the cursor test cut short of el.to
\* (cursorPos < el.to for cursorPos <= el.to)
InlineDecosHalfOpen(el, cursor, line) ==
    LET cursorInElement == cursor >= el.from /\ cursor < el.to
        contentFrom == el.openMarker.to
        contentTo == el.closeMarker.from
        content ==
            IF contentFrom < contentTo
            THEN IF el.type = "tag"
                 THEN <<MarkAttr("cm-tag-link",
                                 Slice(line.text, el.from - line.from, el.to - line.from),
                                 el.from, el.to)>>
                 ELSE IF el.type = "link"
                 THEN <<MarkAttr("cm-link", el.linkUrl, contentFrom, contentTo)>>
                 ELSE <<Mark(InlineClass(el.type), contentFrom, contentTo)>>
            ELSE <<>>
        open ==
            IF ~cursorInElement /\ el.type # "tag" /\ el.openMarker.from < el.openMarker.to
            THEN <<Mark("cm-hidden-marker", el.openMarker.from, el.openMarker.to)>>
            ELSE <<>>
        close ==
            IF ~cursorInElement /\ el.type # "tag" /\ el.closeMarker.from < el.closeMarker.to
            THEN <<Mark("cm-hidden-marker", el.closeMarker.from, el.closeMarker.to)>>
            ELSE <<>>
    IN  content \o open \o close

\* the decorations of one inline element with the markers hidden wherever the
\* cursor is (the test !cursorInElement left out)
InlineDecosAlwaysHidden(el, cursor, line) ==
    LET contentFrom == el.openMarker.to
        contentTo == el.closeMarker.from
        content ==
            IF contentFrom < contentTo
            THEN IF el.type = "tag"
                 THEN <<MarkAttr("cm-tag-link",
                                 Slice(line.text, el.from - line.from, el.to - line.from),
                                 el.from, el.to)>>
                 ELSE IF el.type = "link"
                 THEN <<MarkAttr("cm-link", el.linkUrl, contentFrom, contentTo)>>
                 ELSE <<Mark(InlineClass(el.type), contentFrom, contentTo)>>
            ELSE <<>>
        open ==
            IF el.type # "tag" /\ el.openMarker.from < el.openMarker.to
            THEN <<Mark("cm-hidden-marker", el.openMarker.from, el.openMarker.to)>>
            ELSE <<>>
        close ==
            IF el.type # "tag" /\ el.closeMarker.from < el.closeMarker.to
            THEN <<Mark("cm-hidden-marker", el.closeMarker.from, el.closeMarker.to)>>
            ELSE <<>>
    IN  content \o open \o close

\* the decorations of one inline element: the content style, then the hidden markers
InlineDecos(el, cursor, line) ==
    LET cursorInElement == cursor >= el.from /\ cursor <= el.to
        contentFrom == el.openMarker.to
        contentTo == el.closeMarker.from
        content ==
            IF contentFrom < contentTo
            THEN IF el.type = "tag"
                 THEN <<MarkAttr("cm-tag-link",
                                 Slice(line.text, el.from - line.from, el.to - line.from),
                                 el.from, el.to)>>
                 ELSE IF el.type = "link"
                 THEN <<MarkAttr("cm-link", el.linkUrl, contentFrom, contentTo)>>
                 ELSE <<Mark(InlineClass(el.type), contentFrom, contentTo)>>
            ELSE <<>>
        open ==
            IF ~cursorInElement /\ el.type # "tag" /\ el.openMarker.from < el.openMarker.to
            THEN <<Mark("cm-hidden-marker", el.openMarker.from, el.openMarker.to)>>
            ELSE <<>>
        close ==
            IF ~cursorInElement /\ el.type # "tag" /\ el.closeMarker.from < el.closeMarker.to
            THEN <<Mark("cm-hidden-marker", el.closeMarker.from, el.closeMarker.to)>>
            ELSE <<>>
    IN  content \o open \o close

RECURSIVE InlineDecosAll(_, _, _, _)
InlineDecosAll(els, cursor, line, k) ==
    IF k > Len(els) THEN <<>>
    ELSE InlineDecos(els[k], cursor, line) \o InlineDecosAll(els, cursor, line, k + 1)

\* the last part of the loop body: header, list, blockquote and inline elements
MarkdownDecos(line, cursor) ==
    LET cursorOnThisLine == cursor >= line.from /\ cursor <= line.to
    IN  HeaderDecos(parseHeaderElement(line.text, line.from), cursorOnThisLine)
        \o ListDecos(parseListElement(line.text, line.from), cursor, line.from)
        \o BlockquoteDecos(parseBlockquoteElement(line.text, line.from), cursor, line.from)
        \o InlineDecosAll(parseInlineElements(line.text, line.from), cursor, line, 1)

\* the scan state after a closing === that leaves the front-matter flag alone
CloseBlogBlockKeepFrontmatter(st) ==
    [st EXCEPT !.inBlogBlock = FALSE, !.blogFrontmatterDashCount = 0,
               !.blogBlockStartLine = -1]

\* the scan state after an opening === that does not enter the front-matter
OpenBlogBlockNoFrontmatter(st, i) ==
    [st EXCEPT !.inBlogBlock = TRUE, !.blogFrontmatterDashCount = 0,
               !.blogBlockStartLine = i]

\* the scan state after an opening === on line i
OpenBlogBlock(st, i) ==
    [st EXCEPT !.inBlogBlock = TRUE, !.inBlogFrontmatter = TRUE,
               !.blogFrontmatterDashCount = 0, !.blogBlockStartLine = i]

\* the scan state after a closing ===
CloseBlogBlock(st) ==
    [st EXCEPT !.inBlogBlock = FALSE, !.inBlogFrontmatter = FALSE,
               !.blogFrontmatterDashCount = 0, !.blogBlockStartLine = -1]

\* the opener test without the look-up of the name in the registry
IsAtPostOpenerAnyName(st, lineText, registry) ==
    /\ AtPostIndex(lineText) >= 0
    /\ ~st.inAtPost /\ ~st.inBlogBlock /\ ~st.inCodeBlock

\* atPostMatch && !inAtPost && !inBlogBlock && !inCodeBlock, and the name
\* is one of the registry: blogs && blogs.some(b => b.name === blogName).
\* The registry is the set of the names of blogs, empty when blogs is undefined.
IsAtPostOpener(st, lineText, registry) ==
    /\ AtPostIndex(lineText) >= 0
    /\ ~st.inAtPost /\ ~st.inBlogBlock /\ ~st.inCodeBlock
    /\ AtPostName(lineText) \in registry

\* the end conditions of a pseudo-post, which do not end the iteration
EndsAtPost(st, lineText) ==
    st.inAtPost /\ (Trim(lineText) = TripleDash \/ IsHashLetter(lineText))

\* One iteration of the loop over the lines: the scan state after line i and
\* the decorations pushed for it.
WalkLine(st, lines, i, cursor, onPublish, registry) ==
    LET line == lines[i]
        lineText == line.text
        trimmed == Trim(lineText)
        cursorOnThisLine == cursor >= line.from /\ cursor <= line.to
        st2 == IF EndsAtPost(st, lineText)
               THEN [st EXCEPT !.inAtPost = FALSE, !.atPostBlogName = NoText,
                               !.atPostStartLine = -1]
               ELSE st
    IN  IF IsPublishedMetaLine(lineText)
        THEN [st |-> st,
              out |-> (IF line.from < line.to
                       THEN <<Replace("", 0, FALSE, FALSE, NoText, NoText, line.from, line.to)>>
                       ELSE <<>>)
                      \o <<LineDeco("cm-hidden-line", 0, line.from)>>]
        ELSE IF trimmed = TripleEquals
        THEN IF ~st.inBlogBlock
             THEN [st |-> OpenBlogBlock(st, i),
                   out |-> IF ~cursorOnThisLine
                           THEN <<Replace("BlogBlockHeaderWidget", i, onPublish,
                                          BlockIsPublished(lines, i + 1), NoText, NoText,
                                          line.from, line.to)>>
                           ELSE <<>>]
             ELSE [st |-> CloseBlogBlock(st),
                   out |-> IF ~cursorOnThisLine
                           THEN <<Replace("SimpleTextWidget", 0, FALSE, FALSE,
                                          TripleEquals, NoText, line.from, line.to)>>
                           ELSE <<>>]
        ELSE IF st.inBlogBlock /\ trimmed = TripleDash
        THEN [st |-> [st EXCEPT !.blogFrontmatterDashCount = @ + 1,
                                !.inBlogFrontmatter =
                                    IF st.blogFrontmatterDashCount + 1 >= 2 THEN FALSE ELSE @],
              out |-> <<>>]
        ELSE IF IsAtPostOpener(st, lineText, registry)
        THEN [st |-> [st EXCEPT !.inAtPost = TRUE,
                                !.atPostBlogName = AtPostName(lineText),
                                !.atPostStartLine = i],
              out |-> <<Mark("cm-at-field", line.from, line.to)>>
                      \o (IF ~cursorOnThisLine /\ onPublish
                          THEN <<RocketWidget(i, AtPostName(lineText),
                                              AtPostIsPublished(lines, i + 1), line.to)>>
                          ELSE <<>>)]
        ELSE IF st2.inAtPost /\ IsAtField(lineText)
        THEN [st |-> st2,
              out |-> IF ~cursorOnThisLine
                      THEN <<Mark("cm-at-field", line.from, line.to)>> ELSE <<>>]
        ELSE IF ~st2.inAtPost /\ ~st2.inBlogBlock /\ ~st2.inCodeBlock /\ IsAtField(lineText)
        THEN [st |-> st2,
              out |-> IF ~cursorOnThisLine
                      THEN <<Mark("cm-at-field", line.from, line.to)>> ELSE <<>>]
        ELSE IF StartsWith(lineText, Fence)
        THEN [st |-> [st2 EXCEPT !.inCodeBlock = ~@],
              out |-> IF ~cursorOnThisLine
                      THEN <<Replace("SimpleTextWidget", 0, FALSE, FALSE,
                                     <<"C", "o", "d", "e">>, Slice(lineText, 3, Len(lineText)),
                                     line.from, line.to)>>
                      ELSE <<>>]
        ELSE IF st2.inCodeBlock
        THEN [st |-> st2, out |-> <<Mark("cm-code-block-line", line.from, line.to)>>]
        ELSE IF st2.inBlogFrontmatter
        THEN [st |-> st2, out |-> <<>>]
        ELSE IF trimmed = <<>>
        THEN [st |-> st2, out |-> <<>>]
        ELSE IF IsHorizontalRule(lineText)
        THEN [st |-> st2,
              out |-> IF ~cursorOnThisLine
                      THEN <<Mark("cm-horizontal-rule", line.from, line.to)>> ELSE <<>>]
        ELSE IF IsImage(lineText) /\ ~cursorOnThisLine
        THEN [st |-> st2,
              out |-> <<Replace("ImageWidget", 0, FALSE, FALSE,
                                Slice(lineText, 4 + ImageAltLen(lineText),
                                      4 + ImageAltLen(lineText) + ImageUrlLen(lineText)),
                                Slice(lineText, 2, 2 + ImageAltLen(lineText)),
                                line.from, line.to)>>]
        ELSE [st |-> st2, out |-> MarkdownDecos(line, cursor)]

\* the scan state before line i (the state at the top of iteration i)
RECURSIVE WalkerStateAt(_, _, _, _, _)
WalkerStateAt(lines, i, cursor, onPublish, registry) ==
    IF i <= 1 THEN WalkerInit
    ELSE WalkLine(WalkerStateAt(lines, i - 1, cursor, onPublish, registry),
                  lines, i - 1, cursor, onPublish, registry).st

\* the decorations array at the end of the loop, in push order
RECURSIVE WalkFrom(_, _, _, _, _, _)
WalkFrom(st, lines, i, cursor, onPublish, registry) ==
    IF i > Len(lines) THEN <<>>
    ELSE LET r == WalkLine(st, lines, i, cursor, onPublish, registry)
         IN  r.out \o WalkFrom(r.st, lines, i + 1, cursor, onPublish, registry)

Pushed(d, cursor, onPublish, registry) ==
    WalkFrom(WalkerInit, Lines(d), 1, cursor, onPublish, registry)

\* decorations.sort((a, b) => a.from - b.from): Array.prototype.sort is stable
RECURSIVE SortByFrom(_)
SortByFrom(ds) ==
    IF Len(ds) <= 1 THEN ds
    ELSE LET sorted == SortByFrom(SubSeq(ds, 1, Len(ds) - 1))
             x == ds[Len(ds)]
             before == Cardinality({k \in 1..Len(sorted) : sorted[k].from <= x.from})
         IN  SubSeq(sorted, 1, before) \o <<x>> \o SubSeq(sorted, before + 1, Len(sorted))

\* createDecorations without its sort: the decorations in push order
createDecorationsUnsorted(d, cursor, onPublish, registry) ==
    Pushed(d, cursor, onPublish, registry)

\* Decoration.mark(spec).range(from, to) throws RangeError (Mark decorations may
\* not be empty) for from >= to: whether building one of ds threw
RangeErrorIn(ds) ==
    \E k \in 1..Len(ds) : ds[k].kind = "mark" /\ ds[k].from >= ds[k].to

\* the outcome of a pass that threw instead of returning a DecorationSet
Thrown == <<Deco("RangeError", 0, 0, "", "", 0, FALSE, FALSE, NoText, NoText)>>

\* function createDecorations(view, onPublish, blogs): DecorationSet, with
\* cursor = view.state.field(cursorPositionField) and d = view.state.doc
createDecorations(d, cursor, onPublish, registry) ==
    CHOOSE result \in {IF RangeErrorIn(pushed) THEN Thrown ELSE SortByFrom(pushed) :
                          pushed \in {Pushed(d, cursor, onPublish, registry)}} : TRUE

----------------------------------------------------------------------------
(* The live preview plugin and the cursor position field.                  *)

\* cursorPositionField.update(value, tr): selection is tr.selection, -1 for undefined
cursorPositionFieldUpdate(value, selection) ==
    IF selection >= 0 THEN selection ELSE value

\* update of the plugin class rebuilding on every selection, whatever the line
PluginUpdateAnySelection(changed, selected, currentLine, lastLine) ==
    changed \/ selected

\* update(update: ViewUpdate) of the plugin class, its two conditions: the
\* document changed, or the selection was set and the caret is on another line
\* than the one recorded in lastSelectionLine
PluginUpdate(changed, selected, currentLine, lastLine) ==
    IF changed THEN TRUE
    ELSE selected /\ currentLine # lastLine

\* no publish handler is suspended
NoPublish == [kind |-> "none", blockLine |-> 0, blogName |-> <<>>, content |-> <<>>, slug |-> <<>>]

\* the host editor applies a transaction: the new state, then the plugin update,
\* which rebuilds the decorations and records the caret line when PluginUpdate
\* says so and otherwise leaves both alone; then the update listener, which
\* calls scheduleSave on a document change (the timeout cleared and set anew).  A plugin whose constructor or
\* update threw is deactivated by the host: it is not updated any more and
\* provides no decorations.  On a document change the caret line is recorded
\* after the pass (not reached when it throws), on a caret move before it.
Dispatch(changed, newDoc, selection, newHead) ==
    LET newCursor == cursorPositionFieldUpdate(cursorPos, selection)
        currentLine == LineNumberAt(newDoc, newHead)
        rebuild == /\ ~crashed
                   /\ PluginUpdate(changed, selection >= 0, currentLine, lastSelectionLine)
    IN  /\ doc' = newDoc
        /\ docChanged' = changed
        /\ selectionSet' = (selection >= 0)
        /\ head' = newHead
        /\ cursorPos' = newCursor
        /\ \E built \in {IF rebuild
                          THEN createDecorations(newDoc, newCursor, hasPublish, blogs)
                          ELSE decorations} :
              LET threw == rebuild /\ built = Thrown
              IN  /\ decorations' = IF threw THEN <<>> ELSE built
                  /\ crashed' = (crashed \/ threw)
                  /\ lastSelectionLine' = IF rebuild /\ ~(threw /\ changed)
                                          THEN currentLine ELSE lastSelectionLine
        /\ rebuilt' = rebuild
        /\ timer' = (timer \/ changed)
        /\ UNCHANGED <<blogs, hasPublish, mounted>>

----------------------------------------------------------------------------
(* Bounds and inputs.                                                      *)

\* the longest document the typing actions of Spec build
MaxDocLen == 5

\* the characters typed in Spec
TypedChars == {"*", "a", "\n"}

\* the blog registry of the settings
DefaultBlogs == {<<"b">>}

\* the longest line of the single-line documents of SpecInline
MaxLineLen == 6

\* the characters of those lines
InlineChars == {"*", "_", "a"}

\* every line of at most MaxLineLen characters of InlineChars
InlineLines == UNION {[1..n -> InlineChars] : n \in 0..MaxLineLen}

\* the most # characters a line of HeaderLines starts with
MaxHashes == 7

\* what follows the # characters of a line of HeaderLines
HeaderTails ==
    {<<>>, <<" ">>, <<"\t">>, <<"a">>, <<"-">>, <<"_", "9">>, <<"Z", "-", "b">>,
     <<" ", "a">>, <<"\t", "a">>, <<" ", " ", "a">>, <<"a", " ">>, <<"a", " ", "b">>,
     <<"!">>, <<"a", "!">>, <<" ", "#", "a">>, <<"p", "r", "o", "j", "e", "c", "t">>,
     <<" ", "p", "r", "o", "j", "e", "c", "t">>}

\* lines of 0 to MaxHashes # characters followed by one of HeaderTails
HeaderLines ==
    {[k \in 1..n |-> "#"] \o tail : n \in 0..MaxHashes, tail \in HeaderTails}

\* the document of the end-to-end scenario, without and with a final line break
EndToEndDoc ==
    <<"#", " ", "T", "i", "t", "l", "e", "\n", "\n",
      "S", "o", "m", "e", " ", "*", "*", "b", "o", "l", "d", "*", "*", " ",
      "a", "n", "d", " ", "#", "t", "a", "g", " ", "t", "e", "x", "t", ".">>

EndToEndDocs == {EndToEndDoc, EndToEndDoc \o <<"\n">>}

\* the line of the bold-over-italic example
BoldItalicLine == <<"*", "*", "a", "*", "b", "*", "c", "*", "*">>

\* documents with an unclosed bold on their first line
UnclosedBoldDocs == {<<"*", "*", "h", "i">>, <<"*", "*", "h", "i", "\n", "x">>}

ScenarioDocs == EndToEndDocs \cup {BoldItalicLine} \cup UnclosedBoldDocs

\* the longest document the typing action of SpecScenario builds
MaxScenarioLen == 8

\* the lines the documents of SpecBlocks are made of
BlockLineKinds ==
    {TripleEquals,
     Word_published \o <<":", " ">> \o Word_true,
     <<"x">>}

\* the most lines of a document of SpecBlocks
MaxDocLines == 4

\* the lines ls joined by line breaks
RECURSIVE JoinLines(_)
JoinLines(ls) ==
    IF Len(ls) = 0 THEN <<>>
    ELSE IF Len(ls) = 1 THEN ls[1]
    ELSE ls[1] \o <<"\n">> \o JoinLines(Tail(ls))

\* a longer note: two custom blocks in a row, a line in each and one after
LongBlockDocs ==
    {JoinLines(<<TripleEquals, <<"x">>, TripleEquals, TripleEquals, <<"x">>, TripleEquals, <<"x">>>>)}

\* every document of 1 to MaxDocLines lines of BlockLineKinds, and the longer note
BlockDocs ==
    {JoinLines(ls) : ls \in UNION {[1..n -> BlockLineKinds] : n \in 1..MaxDocLines}}
        \cup LongBlockDocs

\* the lines the documents of SpecFences are made of
FenceLineKinds ==
    {<<>>, <<"#", " ", "x">>, Fence, TripleEquals, TripleDash}

\* the most lines of the enumerated documents of SpecFences
MaxFenceLines == 3

\* longer notes: a fence with a blank line in it, a custom block with its
\* front-matter and a body, a fence that is never closed, a custom block
\* inside a pseudo-post, a metadata line and a fence in a front-matter
LongFenceDocs ==
    {JoinLines(<<Fence, <<"x">>, <<>>, Fence, <<"x">>>>),
     JoinLines(<<TripleEquals, TripleDash, <<"x">>, TripleDash, <<"x">>, TripleEquals>>),
     JoinLines(<<<<"x">>, Fence \o <<"j", "s">>, TripleEquals, <<"@", "f">>, <<"#", " ", "x">>>>),
     JoinLines(<<<<"@", "b", " ">> \o Word_post, TripleEquals, <<"@", "f">>, <<"#", " ", "x">>>>),
     JoinLines(<<TripleEquals, <<"@">> \o Word_published \o <<" ">> \o Word_true,
                 Fence, <<"x">>, Fence, <<"*", "x", "*">>>>)}

\* every document of 1 to MaxFenceLines lines of FenceLineKinds, and the longer notes
FenceDocs ==
    {JoinLines(ls) : ls \in UNION {[1..n -> FenceLineKinds] : n \in 1..MaxFenceLines}}
        \cup LongFenceDocs

\* the lines the documents of SpecMeta are made of: metadata lines in both
\* cases, lines that only begin like one, and lines that change the scan state
MetaLineKinds ==
    {Fence, TripleEquals,
     <<"@", "b", " ">> \o Word_post,
     <<"@">> \o Word_published \o <<" ">> \o Word_true,
     <<"@", "P", "U", "B", "L", "I", "S", "H", "E", "D", "\t">>,
     <<"@">> \o Word_published,
     <<"@">> \o Word_published \o <<":", "x">>}

\* the most lines of a document of SpecMeta
MaxMetaLines == 3

\* every document of 1 to MaxMetaLines lines of MetaLineKinds
MetaDocs == {JoinLines(ls) : ls \in UNION {[1..n -> MetaLineKinds] : n \in 1..MaxMetaLines}}

\* the most leading spaces, and the most spaces after the marker, of a line of ListLines
MaxIndent == 2

MaxGap == 2

\* the leading whitespace of the lines of ListLines
ListLeads == {[k \in 1..n |-> " "] : n \in 0..MaxIndent} \cup {<<"\t", " ">>}

\* the markers: bullets, numbers with and without their dot, a bullet glued to text
ListMarkers ==
    {<<"-">>, <<"*">>, <<"+">>, <<"1", ".">>, <<"1", "2", ".">>, <<"1">>, <<"-", "x">>}

\* what follows the whitespace after the marker: nothing, an item, task boxes
\* (well formed and not)
ListRests ==
    {<<>>, <<"a">>, <<"[", " ", "]", " ", "a">>, <<"[", "x", "]", " ", "a">>,
     <<"[", "X", "]", " ", " ", "a">>, <<"[", "x", "]", "a">>, <<"[", "y", "]", " ", "a">>,
     <<"[", " ", "]">>}

\* one-line notes: leading whitespace, a marker, 0 to MaxGap spaces, a rest
ListLines ==
    {lead \o marker \o [k \in 1..gap |-> " "] \o rest :
        lead \in ListLeads, marker \in ListMarkers, gap \in 0..MaxGap, rest \in ListRests}

\* the lines the enumerated documents of SpecPosts are made of: an opener with
\* a name of the registry and one with another name, a --- line, a header
\* and a sentinel
PostLineKinds ==
    {<<"@", "b", " ">> \o Word_post,
     <<"@", "c", " ">> \o Word_post,
     TripleDash,
     <<"#", " ", "T">>,
     TripleEquals}

\* the most lines of the enumerated documents of SpecPosts
MaxPostLines == 3

\* longer notes: two pseudo-posts in a row with their fields and a body, an
\* opener inside a code fence, an opener with two spaces before the word
\* post, a pseudo-post ended by a tag line
LongPostDocs ==
    {JoinLines(<<<<"@", "b", " ">> \o Word_post, <<"@", "f">>,
                 <<"@", "b", " ">> \o Word_post, <<"@", "f">>, <<"x">>>>),
     JoinLines(<<Fence, <<"@", "b", " ">> \o Word_post, Fence, <<"@", "f">>>>),
     JoinLines(<<<<"@", "b", " ", " ">> \o Word_post, <<"@", "f">>, <<"x">>>>),
     JoinLines(<<<<"@", "b", " ">> \o Word_post, <<"#", "a">>, <<"@", "f">>,
                 <<"@", "b", " ">> \o Word_post>>)}

\* every document of 1 to MaxPostLines lines of PostLineKinds, and the longer notes
PostDocs ==
    {JoinLines(ls) : ls \in UNION {[1..n -> PostLineKinds] : n \in 1..MaxPostLines}}
        \cup LongPostDocs

\* the pieces of a line put end to end
RECURSIVE Concat(_)
Concat(ts) ==
    IF Len(ts) = 0 THEN <<>> ELSE Head(ts) \o Concat(Tail(ts))

\* the pieces a line of inline markers is made of: the markers of the four
\* kinds of span that have an unclosed form, the underscore, and a letter
MarkerTokens ==
    {<<"*", "*">>, <<"*">>, <<"~", "~">>, <<Backquote>>, <<"_">>, <<"a">>}

MaxMarkerTokens == 4

\* longer lines: a closed span and an unclosed span of the same kind, spans
\* of asterisks and of underscores that cross
LongMarkerLines ==
    {<<"*", "*", "a", "*", "*", "a", "*", "*", "a">>,
     <<"~", "~", "a", "~", "~", "a", "~", "~", "a">>,
     <<"*", "a", " ", "_", "b", "*", "c", "_">>,
     <<"*", "*", "a", "_", "_", "b", "*", "*", "c", "_", "_">>}

\* one-line notes of inline markers
MarkerLines ==
    {Concat(ts) : ts \in UNION {[1..n -> MarkerTokens] : n \in 0..MaxMarkerTokens}}
        \cup LongMarkerLines

\* the pieces a line of inline spans is made of: the markers of bold, italic,
\* strikethrough and inline code, a letter, and a tag after a space
SpanTokens ==
    {<<"*", "*">>, <<"*">>, <<"~", "~">>, <<Backquote>>, <<"a">>, <<" ", "#", "t">>}

MaxSpanTokens == 3

\* longer lines: a link, a link inside bold, italic inside bold, two spans
\* side by side, an unclosed span after a closed one, a tag inside a span
LongSpanLines ==
    {<<"[", "a", "]", "(", "u", ")">>,
     <<"*", "*", "[", "a", "]", "(", "u", ")", "*", "*">>,
     <<"*", "*", "a", " ", "*", "b", "*", "*", "*">>,
     <<"*", "a", "*", " ", "~", "~", "b", "~", "~">>,
     <<Backquote, "a", Backquote, "*", "*", "b">>,
     <<"~", "~", "a", " ", "#", "t", "~", "~">>,
     <<"_", "_", "a", "_", "_", " ", "_", "b", "_">>}

\* notes of one line of inline spans followed by an empty line
SpanDocs ==
    {l \o <<"\n">> :
        l \in {Concat(ts) : ts \in UNION {[1..n -> SpanTokens] : n \in 1..MaxSpanTokens}}
               \cup LongSpanLines}

\* the notes of the saving scenarios: at most MaxSaveLen letters
MaxSaveLen == 2

SaveContents == UNION {[1..n -> {"a"}] : n \in 0..MaxSaveLen}

\* at most MaxInFlight onSave promises and requested frames are outstanding at a time
MaxInFlight == 2

\* the notes of the publishing scenarios: custom blocks with a front-matter
\* that names the blog b, and a body line that tells them apart
BlockOf(body) ==
    <<TripleEquals, TripleDash, <<"b", "l", "o", "g", ":", " ", "\"", "b", "\"">>,
      TripleDash, body, TripleEquals>>

PublishDocs ==
    {JoinLines(BlockOf(<<"x">>)), JoinLines(BlockOf(<<"x">>) \o BlockOf(<<"y">>))}

\* the lines inside the custom blocks of the publishing scenarios without edits
RepublishBlockLines ==
    {TripleDash, <<"b", "l", "o", "g", ":", " ", "\"", "b", "\"">>, <<"x">>}

\* the most lines inside these blocks
MaxBlockInner == 3

\* the lines after the title of the pseudo-posts of these scenarios
RepublishPostLines ==
    {<<"@", "s", "l", "u", "g", " ", "o">>,
     <<"@", "p", "u", "b", "l", "i", "s", "h", "e", "d", " ", "f", "a", "l", "s", "e">>,
     <<"@", "p", "u", "b", "l", "i", "s", "h", "e", "d", " ", "t", "r", "u", "e">>,
     <<"x">>}

\* the most lines after the title
MaxPostFields == 2

\* the notes of these scenarios: one custom block of 0 to MaxBlockInner
\* lines, the blocks of PublishDocs, and one pseudo-post of blog b with a
\* title and 0 to MaxPostFields lines after it, one @published field at most
RepublishDocs ==
    {JoinLines(<<TripleEquals>> \o ls \o <<TripleEquals>>) :
        ls \in UNION {[1..n -> RepublishBlockLines] : n \in 0..MaxBlockInner}}
    \cup PublishDocs
    \cup {JoinLines(<<<<"@", "b", " ", "p", "o", "s", "t">>,
                      <<"@", "t", "i", "t", "l", "e", " ", "t">>>> \o ls) :
            ls \in {ps \in UNION {[1..n -> RepublishPostLines] : n \in 0..MaxPostFields} :
                       Cardinality({k \in 1..Len(ps) : At(ps[k], 1) = "p"}) <= 1}}

\* where the user puts the caret in these scenarios: the start of the note
PublishCarets == {0}

\* the slug of a successful publish call (empty: none)
PublishSlugs == {<<>>, <<"s">>}

\* the most empty lines the user has in the note at a time
MaxBlankLines == 2

\* the offsets at which the lines of d start
LineStarts(d) == {Lines(d)[k].from : k \in 1..Len(Lines(d))}

----------------------------------------------------------------------------
(* The editor: construction and the transactions of the host.              *)

\* EditorState.create({ doc: initialContent, ... }) and new EditorView: the
\* selection is at 0, the cursor position field holds -1 (its create()), and
\* the plugin constructor has built the decorations and recorded the caret line
\* (a constructor that threw leaves no plugin and no decorations).
InitWith(contents, publishChoices) ==
    /\ doc \in contents
    /\ head = 0
    /\ cursorPos = -1
    /\ hasPublish \in publishChoices
    /\ blogs = DefaultBlogs
    /\ \E built \in {createDecorations(doc, -1, hasPublish, blogs)} :
          /\ decorations = IF built = Thrown THEN <<>> ELSE built
          /\ crashed = (built = Thrown)
    /\ lastSelectionLine = LineNumberAt(doc, 0)
    /\ rebuilt = TRUE
    /\ docChanged = FALSE
    /\ selectionSet = FALSE
    /\ mounted = TRUE
    /\ timer = FALSE
    /\ contentRef = doc
    /\ isSaving = FALSE
    /\ inFlight = <<>>
    /\ frames = 0
    /\ lastOnSave = doc
    /\ stored = doc
    /\ pending = NoPublish

\* a character typed at the caret: a change with a selection after it
InsertText(c, maxLen) ==
    /\ Len(doc) < maxLen
    /\ Dispatch(TRUE, SubSeq(doc, 1, head) \o <<c>> \o SubSeq(doc, head + 1, Len(doc)),
                head + 1, head + 1)
    /\ UNCHANGED saveVars

\* Backspace: the character before the caret deleted, the caret moved back
DeleteBackward ==
    /\ head > 0
    /\ Dispatch(TRUE, SubSeq(doc, 1, head - 1) \o SubSeq(doc, head + 1, Len(doc)),
                head - 1, head - 1)
    /\ UNCHANGED saveVars

\* a caret move (arrow key, click): a transaction with a selection and no change
SetSelection(pos) ==
    /\ Dispatch(FALSE, doc, pos, pos)
    /\ UNCHANGED saveVars

\* an update with neither a change nor a selection (focus, viewport, geometry)
ViewUpdate ==
    /\ Dispatch(FALSE, doc, -1, head)
    /\ UNCHANGED saveVars

\* The editor opened on an empty note, the user typing.
Init == InitWith({<<>>}, {TRUE})

Next ==
    \/ \E c \in TypedChars : InsertText(c, MaxDocLen)
    \/ DeleteBackward
    \/ \E pos \in 0..Len(doc) : SetSelection(pos)
    \/ ViewUpdate

Spec == Init /\ [][Next]_vars

\* The editor opened on a one-line note, the caret moved about.
InitInline == InitWith(InlineLines \cup HeaderLines, {TRUE})

NextInline ==
    \/ \E pos \in 0..Len(doc) : SetSelection(pos)
    \/ ViewUpdate

SpecInline == InitInline /\ [][NextInline]_vars

\* The editor opened on one of the scenario notes, the caret moved about and
\* asterisks typed.
InitScenario == InitWith(ScenarioDocs, {TRUE})

NextScenario ==
    \/ InsertText("*", MaxScenarioLen)
    \/ \E pos \in 0..Len(doc) : SetSelection(pos)
    \/ ViewUpdate

SpecScenario == InitScenario /\ [][NextScenario]_vars

\* The editor opened on a note of custom blocks, the caret put on its lines.
InitBlocks == InitWith(BlockDocs, BOOLEAN)

NextBlocks ==
    \/ \E pos \in LineStarts(doc) : SetSelection(pos)
    \/ ViewUpdate

SpecBlocks == InitBlocks /\ [][NextBlocks]_vars

\* The editor opened on a note of code fences and custom blocks, the caret put
\* on its lines and Enter pressed at the start of a line.
InitFences == InitWith(FenceDocs, {TRUE})

\* Enter at the caret: a line break inserted, the caret after it
SplitLine(maxLines) ==
    /\ Len(Lines(doc)) < maxLines
    /\ Dispatch(TRUE, SubSeq(doc, 1, head) \o <<"\n">> \o SubSeq(doc, head + 1, Len(doc)),
                head + 1, head + 1)
    /\ UNCHANGED saveVars

NextFences ==
    \/ \E pos \in LineStarts(doc) : SetSelection(pos)
    \/ SplitLine(MaxFenceLines + 1)
    \/ ViewUpdate

SpecFences == InitFences /\ [][NextFences]_vars

\* The editor opened on a note with metadata lines, the caret put on its lines.
InitMeta == InitWith(MetaDocs, {TRUE})

NextMeta ==
    \/ \E pos \in LineStarts(doc) : SetSelection(pos)
    \/ ViewUpdate

SpecMeta == InitMeta /\ [][NextMeta]_vars

\* The editor opened on a one-line note that is or looks like a list item.
InitLists == InitWith(ListLines, {TRUE})

NextLists ==
    \/ \E pos \in 0..Len(doc) : SetSelection(pos)
    \/ ViewUpdate

SpecLists == InitLists /\ [][NextLists]_vars

\* The editor opened on a note of pseudo-posts, with or without a publish
\* callback, the caret put on its lines.
InitPosts == InitWith(PostDocs, BOOLEAN)

NextPosts ==
    \/ \E pos \in LineStarts(doc) : SetSelection(pos)
    \/ ViewUpdate

SpecPosts == InitPosts /\ [][NextPosts]_vars

\* The editor opened on a one-line note of inline markers, the caret moved about.
InitMarkers == InitWith(MarkerLines, {TRUE})

SpecMarkers == InitMarkers /\ [][NextInline]_vars

\* The editor opened on a note of one line of inline spans, the caret moved
\* about on it and to the empty line below.
InitSpans == InitWith(SpanDocs, {TRUE})

NextSpans ==
    \/ \E pos \in 0..Len(doc) : SetSelection(pos)
    \/ ViewUpdate

SpecSpans == InitSpans /\ [][NextSpans]_vars

----------------------------------------------------------------------------
(* The helpers of the key bindings and of the publish handlers.            *)

\* function isInsideBlogBlock(doc, pos): the backward loop returns false at
\* the second === it meets, the forward loop returns true at a later ===, and
\* the function returns true after it as well
isInsideBlogBlock(d, pos) ==
    LET lines == Lines(d)
        number == LineNumberAt(d, pos)
        backward == {i \in 1..number : Trim(lines[i].text) = TripleEquals}
        openingFound == backward # {}
    IN  IF Cardinality(backward) >= 2 THEN FALSE
        ELSE IF ~openingFound THEN FALSE
        ELSE IF \E i \in number..Len(lines) :
                    Trim(lines[i].text) = TripleEquals /\ i # number
        THEN TRUE
        ELSE TRUE

\* the smallest and the largest element of a non-empty set of numbers
Min(S) == CHOOSE x \in S : \A y \in S : x <= y

Max(S) == CHOOSE x \in S : \A y \in S : y <= x

\* findBlogBlockBoundaries found no block
NoBoundaries == [start |-> -1, end |-> -1]

\* function findBlogBlockBoundaries(doc, pos): the nearest === at or above the
\* line of pos, and the first === at or below it that is another line
findBlogBlockBoundaries(d, pos) ==
    LET lines == Lines(d)
        number == LineNumberAt(d, pos)
        above == {i \in 1..number : Trim(lines[i].text) = TripleEquals}
        startLine == IF above = {} THEN -1 ELSE Max(above)
        below == {i \in number..Len(lines) : Trim(lines[i].text) = TripleEquals /\ i # startLine}
        endLine == IF below = {} THEN -1 ELSE Min(below)
    IN  IF startLine = -1 \/ endLine = -1 THEN NoBoundaries
        ELSE [start |-> startLine, end |-> endLine]

----------------------------------------------------------------------------
(* Saving: the debounced save, Mod-s, the external content effect, unmount. *)

\* onSave(content) called: the promise it returns is not settled yet
CallOnSave(content, awaited) ==
    /\ Len(inFlight) + frames < MaxInFlight
    /\ contentRef' = content
    /\ lastOnSave' = content
    /\ inFlight' = Append(inFlight, [content |-> content, awaited |-> awaited])

\* the run of the Mod-s key binding
ModS ==
    /\ mounted
    /\ doc # contentRef
    /\ CallOnSave(doc, FALSE)
    /\ UNCHANGED <<doc, head, cursorPos, decorations, lastSelectionLine, rebuilt, docChanged,
                   selectionSet, blogs, hasPublish, crashed, mounted, timer, isSaving, frames,
                   stored, pending>>

\* the timeout of scheduleSave fires: the callback up to its await
TimerFires ==
    /\ timer
    /\ timer' = FALSE
    /\ IF doc # contentRef
       THEN /\ isSaving' = TRUE
            /\ CallOnSave(doc, TRUE)
       ELSE UNCHANGED <<isSaving, contentRef, lastOnSave, inFlight>>
    /\ UNCHANGED <<doc, head, cursorPos, decorations, lastSelectionLine, rebuilt, docChanged,
                   selectionSet, blogs, hasPublish, crashed, mounted, frames, stored, pending>>

\* the sequence s without its element k
Without(s, k) == SubSeq(s, 1, k - 1) \o SubSeq(s, k + 1, Len(s))

\* an onSave promise resolves: the host has stored the content; the debounced
\* callback that awaits it goes on and requests an animation frame
OnSaveResolves(k) ==
    /\ stored' = inFlight[k].content
    /\ frames' = IF inFlight[k].awaited THEN frames + 1 ELSE frames
    /\ inFlight' = Without(inFlight, k)
    /\ UNCHANGED <<doc, head, cursorPos, decorations, lastSelectionLine, rebuilt, docChanged,
                   selectionSet, blogs, hasPublish, crashed, mounted, timer, contentRef,
                   isSaving, lastOnSave, pending>>

\* an onSave promise rejects: the debounced callback that awaits it ends there
OnSaveRejects(k) ==
    /\ inFlight' = Without(inFlight, k)
    /\ UNCHANGED <<doc, head, cursorPos, decorations, lastSelectionLine, rebuilt, docChanged,
                   selectionSet, blogs, hasPublish, crashed, mounted, timer, contentRef,
                   isSaving, frames, lastOnSave, stored, pending>>

\* the animation frame callback of scheduleSave
AnimationFrame ==
    /\ frames > 0
    /\ frames' = frames - 1
    /\ isSaving' = FALSE
    /\ UNCHANGED <<doc, head, cursorPos, decorations, lastSelectionLine, rebuilt, docChanged,
                   selectionSet, blogs, hasPublish, crashed, mounted, timer, contentRef,
                   inFlight, lastOnSave, stored, pending>>

\* the cleanup of the editor effect: the timeout cleared, the view destroyed
Unmount ==
    /\ mounted
    /\ mounted' = FALSE
    /\ timer' = FALSE
    /\ UNCHANGED <<doc, head, cursorPos, decorations, lastSelectionLine, rebuilt, docChanged,
                   selectionSet, blogs, hasPublish, crashed>>
    /\ UNCHANGED saveVars

\* ChangeSet.mapPos(pos, -1) through the replacement of the whole document
\* (oldLen characters) by newLen characters: where the selection head goes
MapThroughReplaceAll(pos, oldLen, newLen) ==
    IF pos < oldLen \/ oldLen = 0 THEN 0 ELSE newLen

\* the effect on [initialContent, filePath]: the host hands in a content that
\* differs from the document while no debounced save is under way, and the
\* document is replaced by a change without a selection
ExternalContent(initialContent) ==
    /\ mounted
    /\ ~isSaving
    /\ doc # initialContent
    /\ Dispatch(TRUE, initialContent, -1,
                MapThroughReplaceAll(head, Len(doc), Len(initialContent)))
    /\ contentRef' = initialContent
    /\ lastOnSave' = initialContent
    /\ stored' = initialContent
    /\ UNCHANGED <<isSaving, inFlight, frames, pending>>

\* The editor opened on a short note: typing, saving with Mod-s, the debounced
\* save and its promise, content handed in by the host, unmount.
InitSave == InitWith(SaveContents, {TRUE})

NextSave ==
    \/ mounted /\ InsertText("a", MaxSaveLen)
    \/ mounted /\ DeleteBackward
    \/ mounted /\ \E pos \in 0..Len(doc) : SetSelection(pos)
    \/ ModS
    \/ TimerFires
    \/ \E k \in 1..Len(inFlight) : OnSaveResolves(k)
    \/ \E k \in 1..Len(inFlight) : OnSaveRejects(k)
    \/ AnimationFrame
    \/ \E c \in SaveContents : ExternalContent(c)
    \/ Unmount

\* a pending timeout fires, every promise settles (the oldest call in flight
\* is never passed over for ever), a requested frame runs
SpecSave ==
    /\ InitSave /\ [][NextSave]_vars
    /\ WF_vars(TimerFires)
    /\ WF_vars(inFlight # <<>> /\ (OnSaveResolves(1) \/ OnSaveRejects(1)))
    /\ WF_vars(AnimationFrame)

----------------------------------------------------------------------------
(* Publishing a custom block: handlePublishClick.                          *)

Word_blog == <<"b", "l", "o", "g", ":">>
Word_slug == <<"s", "l", "u", "g", ":">>
Quote == "\""

\* text.match(/^<word>\s*"([^"]*)"/), word with its colon: the offset of
\* group 1, -1 if no match
QuotedValueAt(text, word) ==
    LET q == Len(word) + RunIn(text, Len(word), Whitespace)
    IN  IF /\ StartsWith(text, word)
           /\ At(text, q) = Quote
           /\ At(text, q + 1 + RunNotIn(text, q + 1, {Quote})) = Quote
        THEN q + 1 ELSE -1

\* group 1 of that match
QuotedValue(text, word) ==
    LET v == QuotedValueAt(text, word)
    IN  Slice(text, v, v + RunNotIn(text, v, {Quote}))

\* String.prototype.trim on a text of several lines: line breaks are white space too
TrimAll(t) ==
    LET idx == {k \in 1..Len(t) : t[k] \notin Whitespace \cup {"\n"}}
    IN  IF idx = {} THEN <<>> ELSE SubSeq(t, Min(idx), Max(idx))

\* the first loop of handlePublishClick: blogName is the value of the last
\* blog: line of the block
BlockBlogName(lines, b) ==
    LET blogLines == {j \in (b.start + 1)..(b.end - 1) :
                         QuotedValueAt(lines[j].text, Word_blog) >= 0}
    IN  IF blogLines = {} THEN <<>> ELSE QuotedValue(lines[Max(blogLines)].text, Word_blog)

\* and blockContent is made of the other lines that do not start with published:
RECURSIVE BlockContent(_, _, _)
BlockContent(lines, j, end) ==
    IF j >= end THEN <<>>
    ELSE (IF /\ QuotedValueAt(lines[j].text, Word_blog) < 0
             /\ ~StartsWith(lines[j].text, Word_published \o <<":">>)
          THEN lines[j].text \o <<"\n">> ELSE <<>>)
         \o BlockContent(lines, j + 1, end)

\* the publish event of the header widget of line blockLine: handlePublishClick
\* up to its await.  It returns early without boundaries, without a blog name
\* and with a name that is not in the registry.
PublishClick(blockLine) ==
    /\ mounted /\ hasPublish
    /\ pending.kind \notin {"block", "post"}
    /\ \E k \in 1..Len(decorations) :
          /\ decorations[k].widget = "BlogBlockHeaderWidget"
          /\ decorations[k].hasPublish
          /\ decorations[k].num = blockLine
    /\ LET lines == Lines(doc)
           b == findBlogBlockBoundaries(doc, lines[blockLine].from)
       IN  /\ b # NoBoundaries
           /\ BlockBlogName(lines, b) # <<>>
           /\ BlockBlogName(lines, b) \in blogs
           /\ pending' = [kind |-> "block", blockLine |-> blockLine,
                          blogName |-> BlockBlogName(lines, b),
                          content |-> TrimAll(BlockContent(lines, b.start + 1, b.end)),
                          slug |-> <<>>]
    /\ UNCHANGED <<doc, head, cursorPos, decorations, lastSelectionLine, rebuilt, docChanged,
                   selectionSet, blogs, hasPublish, crashed, mounted, timer, contentRef,
                   isSaving, inFlight, frames, lastOnSave, stored>>

\* the publish call answered success: false (or the view is gone): nothing is done
PublishFails ==
    /\ pending.kind \in {"block", "post"}
    /\ pending' = [NoPublish EXCEPT !.kind = "failed"]
    /\ UNCHANGED <<doc, head, cursorPos, decorations, lastSelectionLine, rebuilt, docChanged,
                   selectionSet, blogs, hasPublish, crashed, mounted, timer, contentRef,
                   isSaving, inFlight, frames, lastOnSave, stored>>

\* the slug: line and the published: true line the handler writes
SlugLine(slug) == Word_slug \o <<" ", Quote>> \o slug \o <<Quote>>

PublishedLine == Word_published \o <<":", " ">> \o Word_true

\* no change of the document: the outcome of a handler that stops early
NoChanges(outcome, d) ==
    [outcome |-> outcome, doc |-> d, replFrom |-> 0, replTo |-> 0, replLen |-> 0,
     insAt |-> 0, insLen |-> 0]

\* the changes of a publish handler applied to d: the line from ra to rb
\* replaced by repl (ra = rb: no line replaced) and inserted put in at
\* offset at, which is not before rb
Splice(d, ra, rb, repl, at, inserted) ==
    [outcome |-> "saved",
     doc |-> (IF rb > ra THEN Slice(d, 0, ra) \o repl \o Slice(d, rb, at) ELSE Slice(d, 0, at))
             \o inserted \o Slice(d, at, Len(d)),
     replFrom |-> ra, replTo |-> rb, replLen |-> IF rb > ra THEN Len(repl) ELSE 0,
     insAt |-> at, insLen |-> Len(inserted)]

\* freshClosingDashLine: the second --- line of the block, -1 if there is none
ClosingDashLine(lines, b) ==
    LET dashes == {j \in (b.start + 1)..(b.end - 1) : Trim(lines[j].text) = TripleDash}
    IN  IF Cardinality(dashes) >= 2 THEN Min(dashes \ {Min(dashes)}) ELSE -1

\* lineText.match(/^slug:\s*"([^"]*)"/), lineText the trimmed line
IsSlugLine(trimmed) == QuotedValueAt(trimmed, Word_slug) >= 0

\* the lines of the block before the second --- that pass the slug test of
\* the loop, and those that pass its published test
FrontmatterSlugLines(lines, b, closing) ==
    {j \in (b.start + 1)..(b.end - 1) : j < closing /\ IsSlugLine(Trim(lines[j].text))}

FrontmatterPublishedLines(lines, b, closing) ==
    {j \in (b.start + 1)..(b.end - 1) : j < closing /\ IsPublishedTrue(Trim(lines[j].text))}

\* the changes of a block with closing --- line closing: the last slug line
\* replaced if there is one and the slug differs, else the slug line inserted
\* before the closing ---, and published: true inserted there unless the
\* front-matter has one
FrontmatterChanges(d, lines, closing, slugLines, publishedLines, slug) ==
    IF closing = -1 THEN NoChanges("nothing", d)
    ELSE LET replaceSlug ==
                 /\ slug # <<>> /\ slugLines # {}
                 /\ slug # QuotedValue(Trim(lines[Max(slugLines)].text), Word_slug)
         IN  Splice(d,
                    IF replaceSlug THEN lines[Max(slugLines)].from ELSE 0,
                    IF replaceSlug THEN lines[Max(slugLines)].to ELSE 0,
                    SlugLine(slug),
                    lines[closing].from,
                    (IF slug # <<>> /\ slugLines = {} THEN SlugLine(slug) \o <<"\n">> ELSE <<>>)
                    \o (IF publishedLines = {} THEN PublishedLine \o <<"\n">> ELSE <<>>))

\* the changes of the block with boundaries b
BlockChanges(d, lines, b, slug) ==
    IF b = NoBoundaries THEN NoChanges("nothing", d)
    ELSE CHOOSE r \in {FrontmatterChanges(d, lines, closing,
                                          FrontmatterSlugLines(lines, b, closing),
                                          FrontmatterPublishedLines(lines, b, closing),
                                          slug) : closing \in {ClosingDashLine(lines, b)}} : TRUE

\* handlePublishClick after its await, the call answered success with slug
\* (empty: none): freshDoc.line(blockLine) throws past the last line; without
\* boundaries or without a second --- nothing is done.
BlockPublishChanges(d, blockLine, slug) ==
    IF blockLine > Len(Lines(d)) THEN NoChanges("threw", d)
    ELSE CHOOSE r \in {BlockChanges(d, Lines(d), b, slug) :
                          b \in {findBlogBlockBoundaries(d, Lines(d)[blockLine].from)}} : TRUE

\* ChangeSet.mapPos(pos, -1) through the changes of a publish handler: the
\* selection head after a dispatch of changes without a selection
MapThroughChanges(pos, c) ==
    (IF c.replTo > c.replFrom /\ pos >= c.replFrom
     THEN IF pos < c.replTo THEN c.replFrom
          ELSE pos + c.replLen - (c.replTo - c.replFrom)
     ELSE pos)
    + (IF pos > c.insAt THEN c.insLen ELSE 0)

\* a publish handler goes on after its await with the changes c: the dispatch
\* (if there is a change), contentRef, onSave
FinishPublish(c) ==
    IF c.outcome = "saved"
    THEN /\ IF c.doc # doc
            THEN Dispatch(TRUE, c.doc, -1, MapThroughChanges(head, c))
            ELSE UNCHANGED <<doc, head, cursorPos, decorations, lastSelectionLine, rebuilt,
                             docChanged, selectionSet, blogs, hasPublish, crashed, mounted,
                             timer>>
         /\ CallOnSave(c.doc, FALSE)
         /\ pending' = [NoPublish EXCEPT !.kind = "succeeded"]
         /\ UNCHANGED <<isSaving, frames, stored>>
    ELSE /\ pending' = [NoPublish EXCEPT !.kind = IF c.outcome = "threw" THEN "threw"
                                                   ELSE "succeeded"]
         /\ UNCHANGED <<doc, head, cursorPos, decorations, lastSelectionLine, rebuilt,
                        docChanged, selectionSet, blogs, hasPublish, crashed, mounted, timer,
                        contentRef, isSaving, inFlight, frames, lastOnSave, stored>>

\* the publish call of a custom block answered success: true
PublishSucceeds(slug) ==
    /\ pending.kind = "block"
    /\ \E c \in {BlockPublishChanges(doc, pending.blockLine, slug)} : FinishPublish(c)

----------------------------------------------------------------------------
(* Publishing a pseudo-post: handleAtPostPublishClick.                     *)

\* the end conditions of the two loops: ---, a tag line, another pseudo-post opener
IsAtPostEnd(text) ==
    Trim(text) = TripleDash \/ IsHashLetter(text) \/ AtPostIndex(text) >= 0

\* the last line of the pseudo-post opened on line blockLine
RECURSIVE AtPostLastLine(_, _)
AtPostLastLine(lines, j) ==
    IF j + 1 > Len(lines) THEN j
    ELSE IF IsAtPostEnd(lines[j + 1].text) THEN j
    ELSE AtPostLastLine(lines, j + 1)

\* lineText.match(/^@(\w+)\s+(.*)/): the length of the field name, 0 if no match
AtFieldNameLen(text) ==
    LET n == RunIn(text, 1, WordChars)
    IN  IF At(text, 0) = "@" /\ n >= 1 /\ At(text, 1 + n) \in Whitespace THEN n ELSE 0

AtFieldName(text) == Slice(text, 1, 1 + AtFieldNameLen(text))

\* fieldValue.trim()
AtFieldValue(text) ==
    LET n == AtFieldNameLen(text)
    IN  Trim(Slice(text, 1 + n + RunIn(text, 1 + n, Whitespace), Len(text)))

\* frontmatter[name] after the first loop: the value of the last field line
\* of that name, empty if there is none
AtFrontmatter(lines, blockLine, name) ==
    LET fields == {j \in (blockLine + 1)..AtPostLastLine(lines, blockLine) :
                      AtFieldNameLen(lines[j].text) > 0 /\ AtFieldName(lines[j].text) = name}
    IN  IF fields = {} THEN <<>> ELSE AtFieldValue(lines[Max(fields)].text)

\* contentLines: the lines after the first title field that are not field lines
AtContentLines(lines, blockLine) ==
    LET last == AtPostLastLine(lines, blockLine)
        titles == {j \in (blockLine + 1)..last :
                      AtFieldNameLen(lines[j].text) > 0
                      /\ AtFieldName(lines[j].text) = <<"t", "i", "t", "l", "e">>}
    IN  IF titles = {} THEN <<>>
        ELSE SelectSeq([k \in 1..(last - Min(titles)) |-> lines[Min(titles) + k].text],
                       LAMBDA t : AtFieldNameLen(t) = 0)

\* the publish event of the rocket of line blockLine: handleAtPostPublishClick
\* up to its await.  It returns early with a blog name that is not in the
\* registry and without a title.  Of the content sent (a front-matter built
\* of the fields and of the date of the day, then the content lines) the
\* content lines are kept.
AtPostPublishClick(blockLine) ==
    /\ mounted
    /\ pending.kind \notin {"block", "post"}
    /\ \E k \in 1..Len(decorations) :
          /\ decorations[k].widget = "AtPostRocketWidget"
          /\ decorations[k].num = blockLine
          /\ decorations[k].text \in blogs
          /\ AtFrontmatter(Lines(doc), blockLine, <<"t", "i", "t", "l", "e">>) # <<>>
          /\ pending' = [kind |-> "post", blockLine |-> blockLine,
                         blogName |-> decorations[k].text,
                         content |-> JoinLines(AtContentLines(Lines(doc), blockLine)),
                         slug |-> AtFrontmatter(Lines(doc), blockLine, <<"s", "l", "u", "g">>)]
    /\ UNCHANGED <<doc, head, cursorPos, decorations, lastSelectionLine, rebuilt, docChanged,
                   selectionSet, blogs, hasPublish, crashed, mounted, timer, contentRef,
                   isSaving, inFlight, frames, lastOnSave, stored>>

\* lineText.match(/^@slug\s/) and lineText.match(/^@published\s/)
IsSlugField(text) == StartsWith(text, <<"@", "s", "l", "u", "g">>) /\ At(text, 5) \in Whitespace

IsPublishedField(text) ==
    StartsWith(text, <<"@">> \o Word_published) /\ At(text, 10) \in Whitespace

\* the lines the handler writes
AtSlugLine(slug) == <<"@", "s", "l", "u", "g", " ">> \o slug

AtPublishedLine == <<"@">> \o Word_published \o <<" ">> \o Word_true

\* the field lines of the second loop: lineText.match(/^@\w+/)
AtFieldLines(lines, blockLine) ==
    {j \in (blockLine + 1)..AtPostLastLine(lines, blockLine) :
        At(lines[j].text, 0) = "@" /\ At(lines[j].text, 1) \in WordChars}

\* the changes of a pseudo-post with field lines fields: the last slug field
\* replaced if there is one and the slug differs from the one read before the
\* await, and @published true added after the last field line (the opener if
\* there is none) unless there is a @published field
AtFieldChanges(d, lines, blockLine, fields, slugLines, hasPublished, slug, oldSlug) ==
    LET replaceSlug == slug # <<>> /\ slug # oldSlug /\ slugLines # {}
    IN  Splice(d,
               IF replaceSlug THEN lines[Max(slugLines)].from ELSE 0,
               IF replaceSlug THEN lines[Max(slugLines)].to ELSE 0,
               AtSlugLine(slug),
               IF hasPublished THEN Len(d)
               ELSE lines[IF fields = {} THEN blockLine ELSE Max(fields)].to,
               IF hasPublished THEN <<>> ELSE <<"\n">> \o AtPublishedLine)

\* handleAtPostPublishClick after its await, the call answered success with
\* slug.  freshDoc.line(lastFieldLine) throws when blockLine is past the last
\* line.
AtPostPublishChanges(d, blockLine, slug, oldSlug) ==
    IF blockLine > Len(Lines(d)) THEN NoChanges("threw", d)
    ELSE CHOOSE r \in {AtFieldChanges(d, Lines(d), blockLine, fields,
                                      {j \in fields : IsSlugField(Lines(d)[j].text)},
                                      \E j \in fields : IsPublishedField(Lines(d)[j].text),
                                      slug, oldSlug) :
                          fields \in {AtFieldLines(Lines(d), blockLine)}} : TRUE

\* the publish call of a pseudo-post answered success: true
AtPostPublishSucceeds(slug) ==
    /\ pending.kind = "post"
    /\ \E c \in {AtPostPublishChanges(doc, pending.blockLine, slug, pending.slug)} :
          FinishPublish(c)

\* The editor opened on a note of one custom block or pseudo-post: the
\* publish widgets clicked and the publish call answered, any number of
\* times, with no other edits.
InitRepublish == InitWith(RepublishDocs, {TRUE})

NextRepublish ==
    \/ \E blockLine \in 1..Len(Lines(doc)) : inFlight = <<>> /\ PublishClick(blockLine)
    \/ \E blockLine \in 1..Len(Lines(doc)) : inFlight = <<>> /\ AtPostPublishClick(blockLine)
    \/ PublishFails
    \/ \E slug \in PublishSlugs : PublishSucceeds(slug)
    \/ \E slug \in PublishSlugs : AtPostPublishSucceeds(slug)
    \/ \E k \in 1..Len(inFlight) : OnSaveResolves(k)

SpecRepublish == InitRepublish /\ [][NextRepublish]_vars

\* Enter at the start of a line: an empty line above it
InsertEmptyLine ==
    /\ mounted
    /\ head \in LineStarts(doc)
    /\ Cardinality({k \in 1..Len(Lines(doc)) : Lines(doc)[k].text = <<>>}) < MaxBlankLines
    /\ Dispatch(TRUE, SubSeq(doc, 1, head) \o <<"\n">> \o SubSeq(doc, head + 1, Len(doc)),
                head + 1, head + 1)
    /\ UNCHANGED saveVars

\* Backspace at the start of a line that follows an empty line: the empty line removed
RemoveEmptyLine ==
    /\ mounted
    /\ head > 0 /\ doc[head] = "\n"
    /\ IF head = 1 THEN TRUE ELSE doc[head - 1] = "\n"
    /\ DeleteBackward

\* The editor opened on a note of custom blocks: the publish widgets clicked,
\* the publish call answered, while lines are inserted and removed.  One
\* publish at a time: a widget is clicked when the save of the publish before
\* has settled, and the user edits while the publish call is outstanding.
InitPublish == InitWith(PublishDocs, {TRUE})

NextPublish ==
    \/ \E blockLine \in 1..Len(Lines(doc)) : inFlight = <<>> /\ PublishClick(blockLine)
    \/ PublishFails
    \/ \E slug \in PublishSlugs : PublishSucceeds(slug)
    \/ \E pos \in PublishCarets : SetSelection(pos)
    \/ pending.kind = "block" /\ InsertEmptyLine
    \/ pending.kind = "block" /\ RemoveEmptyLine
    \/ \E k \in 1..Len(inFlight) : OnSaveResolves(k)

SpecPublish == InitPublish /\ [][NextPublish]_vars

----------------------------------------------------------------------------
(* Vocabulary of the properties.                                           *)

\* ds is non-decreasing by start offset
Sorted(ds) == \A k \in 1..(Len(ds) - 1) : ds[k].from <= ds[k + 1].from

\* ds holds the decoration d
HasDeco(ds, d) == \E k \in 1..Len(ds) : ds[k] = d

\* ds suppresses the range from..to (a cm-hidden-marker mark over it)
Hidden(ds, from, to) == HasDeco(ds, Mark("cm-hidden-marker", from, to))

\* the elements of a sequence, as a set
Range(seq) == {seq[k] : k \in 1..Len(seq)}

\* the inline elements of every line of d
InlineElementsOf(d) ==
    UNION {Range(parseInlineElements(l.text, l.from)) : l \in Range(Lines(d))}

\* offset pos lies within the range of el, both ends included
Within(pos, el) == pos >= el.from /\ pos <= el.to

\* the ranges of a and b share a character
Overlap(a, b) == ~(a.to <= b.from \/ a.from >= b.to)

\* el has a closing marker
IsClosed(el) == el.closeMarker.from < el.closeMarker.to

\* the bold elements of els, in order
BoldsOf(els) == SelectSeq(els, LAMBDA e : e.type = "bold")

----------------------------------------------------------------------------
(* C1: sort invariant.                                                     *)

\* C1: for every document and every cursor offset, the annotation list a
\* walker pass returns is non-decreasing by start offset: any two consecutive
\* annotations a, b have a.from <= b.from.
C1_SortInvariant == Sorted(decorations)

\* a pass whose push order was not sorted (a content mark pushed before the
\* opening marker to its left), so that the sort had work to do
C1_Witness ==
    /\ rebuilt
    /\ ~Sorted(Pushed(doc, cursorPos, hasPublish, blogs))
    /\ decorations = createDecorations(doc, cursorPos, hasPublish, blogs)

----------------------------------------------------------------------------
(* C2: cursor reveal.                                                      *)

\* C2: for a closed italic span whose markers are suppressed while the cursor
\* is outside it, whenever the cursor moves (the text unchanged, from anywhere,
\* the same line included) to an offset within [from, to] of the span, a
\* rebuild happens and afterwards neither marker is suppressed.
C2_CursorReveal ==
    [][\A el \in InlineElementsOf(doc) :
          (/\ el.type = "italic" /\ IsClosed(el)
           /\ doc' = doc
           /\ ~Within(cursorPos, el)
           /\ Hidden(decorations, el.openMarker.from, el.openMarker.to)
           /\ Hidden(decorations, el.closeMarker.from, el.closeMarker.to)
           /\ Within(cursorPos', el))
          => (/\ rebuilt'
              /\ ~Hidden(decorations', el.openMarker.from, el.openMarker.to)
              /\ ~Hidden(decorations', el.closeMarker.from, el.closeMarker.to))]_vars

----------------------------------------------------------------------------
(* C3: re-scan trigger.                                                    *)

\* C3: every update that changes the document text rebuilds the annotations;
\* an update that only sets the selection rebuilds them if and only if the
\* line number of the caret after it differs from the line number the caret
\* was on before; an update that does neither never rebuilds, and an update
\* that does not rebuild leaves the annotations as they were.
C3_RescanTrigger ==
    [][/\ (doc' # doc => docChanged' /\ rebuilt')
       /\ (docChanged' => rebuilt')
       /\ (~docChanged' /\ selectionSet'
             => (rebuilt' <=> LineNumberAt(doc', head') # LineNumberAt(doc, head)))
       /\ (~docChanged' /\ ~selectionSet' => ~rebuilt')
       /\ (~rebuilt' => decorations' = decorations)]_vars

\* a selection-only update that took the caret to another line and rebuilt
C3_Witness ==
    /\ selectionSet /\ ~docChanged /\ rebuilt
    /\ Len(Lines(doc)) >= 2
    /\ cursorPos = head

----------------------------------------------------------------------------
(* C4: bold-over-italic precedence.                                        *)

\* C4: for the line **a*b*c** the inline scanner returns one bold span
\* covering the whole text (content a*b*c) and no italic span for b.
C4_BoldOverItalic ==
    doc = BoldItalicLine =>
        LET els == parseInlineElements(doc, 0)
        IN  /\ HasDeco(els, Element("bold", 0, 9, 2, 7, <<>>))
            /\ \A e \in Range(els) : e.type # "italic"

----------------------------------------------------------------------------
(* C5: bold wins ties.                                                     *)

\* C5 as amended: for every line, no closed asterisk-form italic span in the
\* output of the inline scanner overlaps a bold span of the same output.
C5_BoldWinsTies ==
    Len(Lines(doc)) = 1 =>
        LET els == Range(parseInlineElements(doc, 0))
        IN  \A i \in els, b \in els :
                (/\ i.type = "italic" /\ IsClosed(i) /\ At(doc, i.from) = "*"
                 /\ b.type = "bold")
                => ~Overlap(i, b)

\* C5 as written: for every line, no italic span of the output (asterisk or
\* underscore form, closed or unclosed) overlaps a bold span of the output.
C5_Original ==
    Len(Lines(doc)) = 1 =>
        LET els == Range(parseInlineElements(doc, 0))
        IN  \A i \in els, b \in els :
                (i.type = "italic" /\ b.type = "bold") => ~Overlap(i, b)

\* a line on which the asterisk italic pattern matches across a bold span, the
\* match dropped: the output holds the bold span and no italic span over it
C5_Witness ==
    /\ Len(Lines(doc)) = 1
    /\ \E k \in 0..(Len(doc) - 1) :
          /\ ItalicLen(doc, k) > 0
          /\ \E b \in Range(parseInlineElements(doc, 0)) :
                b.type = "bold" /\ ~(k + ItalicLen(doc, k) <= b.from \/ k >= b.to)
          /\ \A i \in Range(parseInlineElements(doc, 0)) :
                ~(i.type = "italic" /\ i.from = k)

----------------------------------------------------------------------------
(* C6: tag versus header.                                                  *)

\* a single # followed by one or more characters of [a-zA-Z0-9_-] and nothing else
IsTagOnlyLine(text) ==
    /\ Len(text) >= 2
    /\ text[1] = "#"
    /\ \A k \in 2..Len(text) : text[k] \in TagChars

\* n # characters (1 to 6) followed by whitespace
IsHashesThenSpace(text, n) ==
    /\ n >= 1 /\ n <= 6 /\ Len(text) > n
    /\ \A k \in 1..n : text[k] = "#"
    /\ text[n + 1] \in Whitespace

\* C6: a line of a single # followed only by characters of [a-zA-Z0-9_-]
\* yields no header construct and yields a tag span over the line; a line of
\* 1 to 6 # followed by whitespace yields a complete header whose level is the
\* hash count; a line of only ## yields an incomplete header of level 2.
C6_TagVersusHeader ==
    Len(Lines(doc)) = 1 =>
        LET header == parseHeaderElement(doc, 0)
            els == parseInlineElements(doc, 0)
        IN  /\ IsTagOnlyLine(doc) =>
                  /\ header = NoElement
                  /\ HasDeco(els, Element("tag", 0, Len(doc), 0, Len(doc), <<>>))
                  /\ (rebuilt =>
                        /\ HasDeco(decorations, MarkAttr("cm-tag-link", doc, 0, Len(doc)))
                        /\ \A n \in 1..6, d \in Range(decorations) :
                              d.class \notin {HeaderClass(n), HeaderMarkerClass(n)})
            /\ \A n \in 1..6 :
                  IsHashesThenSpace(doc, n) =>
                      /\ header.type = "header"
                      /\ header.isComplete
                      /\ header.level = n
            /\ doc = <<"#", "#">> =>
                  /\ header.type = "header"
                  /\ ~header.isComplete
                  /\ header.level = 2
                  /\ (rebuilt => decorations = <<Mark(HeaderMarkerClass(2), 0, 2)>>)

\* the note #project: no header, a tag, and the tag style in the annotations
C6_Witness ==
    /\ doc = <<"#", "p", "r", "o", "j", "e", "c", "t">>
    /\ parseHeaderElement(doc, 0) = NoElement
    /\ rebuilt
    /\ decorations = <<MarkAttr("cm-tag-link", doc, 0, 8)>>

----------------------------------------------------------------------------
(* C7: unclosed fill-in.                                                   *)

\* an opening ** followed by one or more characters other than * and no closing **
IsUnclosedBoldLine(text) ==
    /\ Len(text) >= 3
    /\ text[1] = "*" /\ text[2] = "*"
    /\ \A k \in 3..Len(text) : text[k] # "*"

\* ** then one or more characters other than * then **
IsClosedBoldLine(text) ==
    /\ Len(text) >= 5
    /\ text[1] = "*" /\ text[2] = "*"
    /\ text[Len(text) - 1] = "*" /\ text[Len(text)] = "*"
    /\ \A k \in 3..(Len(text) - 2) : text[k] # "*"

\* C7 as amended: a line of an opening ** followed by at least one non-marker
\* character and no closing ** yields one bold span, from the marker to the
\* end of the line, with an empty close marker; once ** is appended to close
\* it the scanner yields exactly one bold span, closed, and the pass over it
\* styles the content bold and suppresses both ** markers exactly when the
\* cursor offset of that pass is outside [from, to] of the span (a pass run
\* by typing the closing ** has the cursor at to and suppresses neither).
C7_UnclosedFillIn ==
    \A l \in Range(Lines(doc)) :
        LET bolds == BoldsOf(parseInlineElements(l.text, l.from))
        IN  /\ IsUnclosedBoldLine(l.text) =>
                  /\ bolds = <<Element("bold", l.from, l.to, l.from + 2, l.to, <<>>)>>
                  /\ bolds[1].closeMarker.from = bolds[1].closeMarker.to
                  /\ (rebuilt => HasDeco(decorations, Mark("cm-bold", l.from + 2, l.to)))
            /\ IsClosedBoldLine(l.text) =>
                  /\ bolds = <<Element("bold", l.from, l.to, l.from + 2, l.to - 2, <<>>)>>
                  /\ (rebuilt =>
                        /\ HasDeco(decorations, Mark("cm-bold", l.from + 2, l.to - 2))
                        /\ (Hidden(decorations, l.from, l.from + 2)
                              <=> ~(cursorPos >= l.from /\ cursorPos <= l.to))
                        /\ (Hidden(decorations, l.to - 2, l.to)
                              <=> ~(cursorPos >= l.from /\ cursorPos <= l.to)))

\* C7 as written: after ** is appended to close the span, the next pass yields
\* exactly one closed bold span and both of its ** markers are suppressed.
C7_Original ==
    \A l \in Range(Lines(doc)) :
        (IsClosedBoldLine(l.text) /\ docChanged /\ rebuilt) =>
            /\ BoldsOf(parseInlineElements(l.text, l.from))
                 = <<Element("bold", l.from, l.to, l.from + 2, l.to - 2, <<>>)>>
            /\ Hidden(decorations, l.from, l.from + 2)
            /\ Hidden(decorations, l.to - 2, l.to)

\* the closing ** just typed at the end of the line: the pass of that update
\* saw the cursor at to, styled the content and suppressed neither marker
C7_Witness ==
    \E l \in Range(Lines(doc)) :
        /\ IsClosedBoldLine(l.text)
        /\ docChanged /\ rebuilt
        /\ cursorPos = l.to
        /\ HasDeco(decorations, Mark("cm-bold", l.from + 2, l.to - 2))
        /\ ~Hidden(decorations, l.from, l.from + 2)
        /\ ~Hidden(decorations, l.to - 2, l.to)

----------------------------------------------------------------------------
(* C8: the end-to-end scenario.                                            *)

\* what the scenario says of lines 2 and 3: nothing for the blank line, the
\* bold style over bold, the tag style over #tag and nothing suppressed in it,
\* and each ** suppressed unless the cursor is within the bold span
EndToEndRest(ds, cursor) ==
    /\ \A d \in Range(ds) : ~(d.from >= 8 /\ d.to <= 8)
    /\ HasDeco(ds, Mark("cm-bold", 16, 20))
    /\ (Hidden(ds, 14, 16) <=> ~(cursor >= 14 /\ cursor <= 22))
    /\ (Hidden(ds, 20, 22) <=> ~(cursor >= 14 /\ cursor <= 22))
    /\ HasDeco(ds, MarkAttr("cm-tag-link", <<"#", "t", "a", "g">>, 27, 31))
    /\ \A d \in Range(ds) :
          d.class = "cm-hidden-marker" => (d.to <= 27 \/ d.from >= 31)

\* C8 as amended: for the document # Title, blank line, Some **bold** and
\* #tag text., a walker pass produces a level-1 header style over Title, no
\* annotation for the blank line, a bold style over bold, a suppress
\* annotation over each ** (the cursor not being in the bold span) and a tag
\* style over #tag with no suppress annotation for the tag; the marker # is
\* suppressed only when the cursor of the pass is not on line 1: with the
\* cursor at offset 0 it is left visible and carries the header marker style.
C8_EndToEnd ==
    (doc \in EndToEndDocs /\ rebuilt) =>
        /\ HasDeco(decorations, Mark(HeaderClass(1), 2, 7))
        /\ IF cursorPos >= 0 /\ cursorPos <= 7
           THEN /\ HasDeco(decorations, Mark(HeaderMarkerClass(1), 0, 2))
                /\ ~Hidden(decorations, 0, 2)
           ELSE /\ Hidden(decorations, 0, 2)
                /\ ~HasDeco(decorations, Mark(HeaderMarkerClass(1), 0, 2))
        /\ EndToEndRest(decorations, cursorPos)

\* C8 as written: with the cursor at offset 0 the pass produces the header
\* style over Title with the marker # suppressed, and the rest of the scenario.
C8_Original ==
    (doc \in EndToEndDocs /\ rebuilt /\ cursorPos = 0) =>
        /\ HasDeco(decorations, Mark(HeaderClass(1), 2, 7))
        /\ Hidden(decorations, 0, 2)
        /\ EndToEndRest(decorations, cursorPos)

\* a pass over the scenario document with the cursor at offset 0
C8_Witness ==
    /\ doc = EndToEndDoc
    /\ rebuilt
    /\ cursorPos = 0
    /\ decorations =
         <<Mark(HeaderMarkerClass(1), 0, 2),
           Mark(HeaderClass(1), 2, 7),
           Mark("cm-hidden-marker", 14, 16),
           Mark("cm-bold", 16, 20),
           Mark("cm-hidden-marker", 20, 22),
           MarkAttr("cm-tag-link", <<"#", "t", "a", "g">>, 27, 31)>>

----------------------------------------------------------------------------
(* C9: custom block published detection.                                   *)

\* line i of lines is a === sentinel
IsSentinel(lines, i) == Trim(lines[i].text) = TripleEquals

\* line i is an opening sentinel: a sentinel with an even number of sentinels above it
IsOpening(lines, i) ==
    /\ IsSentinel(lines, i)
    /\ Cardinality({k \in 1..(i - 1) : IsSentinel(lines, k)}) % 2 = 0

\* a line beginning with published: true lies between the opening sentinel i
\* and the next sentinel (its closing one), or the end of the document
PublishedWithin(lines, i) ==
    \E j \in (i + 1)..Len(lines) :
        /\ StartsWith(Trim(lines[j].text), Word_published \o <<":", " ">> \o Word_true)
        /\ \A k \in (i + 1)..j : ~IsSentinel(lines, k)

\* the header widgets of ds
HeaderWidgets(ds) == {d \in Range(ds) : d.widget = "BlogBlockHeaderWidget"}

\* C9: at an opening === sentinel the cursor is not on, the pass emits the
\* header widget over that line, marked published exactly when a line
\* beginning with published: true lies between that sentinel and its closing
\* one, wherever in the block; a published: true line after the closing
\* sentinel never marks the block published.  With the cursor on the line no
\* widget is emitted, and no other line gets a header widget.
C9_PublishedLookahead ==
    LET lines == Lines(doc)
    IN  /\ \A d \in HeaderWidgets(decorations) :
              /\ d.num \in 1..Len(lines)
              /\ IsOpening(lines, d.num)
              /\ d.published = PublishedWithin(lines, d.num)
        /\ rebuilt =>
              \A i \in 1..Len(lines) :
                  IsOpening(lines, i) =>
                      IF cursorPos >= lines[i].from /\ cursorPos <= lines[i].to
                      THEN \A d \in HeaderWidgets(decorations) : d.num # i
                      ELSE HasDeco(decorations,
                                   Replace("BlogBlockHeaderWidget", i, hasPublish,
                                           PublishedWithin(lines, i), NoText, NoText,
                                           lines[i].from, lines[i].to))

\* a block closed before a published: true line: its widget is not marked
\* published, while the widget of a block holding such a line is
C9_Witness ==
    LET lines == Lines(doc)
    IN  /\ rebuilt
        /\ Len(lines) = 4
        /\ IsSentinel(lines, 1) /\ IsSentinel(lines, 2) /\ IsSentinel(lines, 3)
        /\ PublishedWithin(lines, 3)
        /\ \E d \in HeaderWidgets(decorations) : d.num = 1 /\ ~d.published
        /\ \E d \in HeaderWidgets(decorations) : d.num = 3 /\ d.published

----------------------------------------------------------------------------
(* C11: the walker never fails.                                            *)

\* C11: for the document of every reachable state and every cursor offset, one
\* pass of the walker returns a list of annotations, it does not raise an
\* error, and the plugin that runs the walker has not been brought down by one.
C11_WalkerNeverFails ==
    /\ ~crashed
    /\ \A cursor \in -1..Len(doc) :
          createDecorations(doc, cursor, hasPublish, blogs) # Thrown

----------------------------------------------------------------------------
(* C12: the metadata line.                                                 *)

\* the text begins with @published in any case
BeginsWithPublished(text) ==
    /\ Len(text) >= 10
    /\ \A k \in 1..10 : ToLower(text[k]) = (<<"@">> \o Word_published)[k]

\* the text begins with @published in any case followed by a whitespace character
BeginsWithPublishedSpace(text) ==
    /\ BeginsWithPublished(text)
    /\ Len(text) >= 11
    /\ text[11] \in Whitespace

\* the two annotations that suppress a line: its content replaced by nothing
\* and the line given the hidden-line class
Suppression(line) ==
    <<Replace("", 0, FALSE, FALSE, NoText, NoText, line.from, line.to),
      LineDeco("cm-hidden-line", 0, line.from)>>

\* the annotations of ds that lie on the line
DecosOn(ds, line) ==
    SelectSeq(ds, LAMBDA d : d.from >= line.from /\ d.to <= line.to)

\* the cursor offsets of the passes looked at in a state: the value of the
\* cursor position field (-1 before the first selection) and the end of the
\* line the caret is on
PassCursors ==
    {cursorPos} \cup {l.to : l \in {x \in Range(Lines(doc)) : head >= x.from /\ head <= x.to}}

\* every line of the document picked by the test is suppressed by the walker
\* for every such cursor offset, in the scan state the walker has there, with no
\* other annotation and no change of the scan state; and while the plugin is
\* alive the annotations in effect hold exactly the suppression on that line
SuppressedWherever(Test(_)) ==
    LET lines == Lines(doc)
    IN  \A i \in 1..Len(lines) :
            Test(lines[i].text) =>
                /\ \A cursor \in PassCursors :
                      LET st == WalkerStateAt(lines, i, cursor, hasPublish, blogs)
                          r == WalkLine(st, lines, i, cursor, hasPublish, blogs)
                      IN  r.out = Suppression(lines[i]) /\ r.st = st
                /\ ~crashed => DecosOn(decorations, lines[i]) = Suppression(lines[i])

\* C12 (amended): every line that begins with @published (in any case)
\* followed by a whitespace character is fully suppressed, whatever the cursor
\* offset and the scan state, and gets no other annotation; a line that does
\* not begin so gets neither of the two suppressing annotations.
C12_MetadataLine ==
    /\ SuppressedWherever(BeginsWithPublishedSpace)
    /\ LET lines == Lines(doc)
       IN  \A i \in 1..Len(lines) :
               ~BeginsWithPublishedSpace(lines[i].text) =>
                   \A k \in 1..Len(decorations) :
                       decorations[k].from = lines[i].from =>
                           /\ decorations[k].class # "cm-hidden-line"
                           /\ ~(decorations[k].kind = "replace" /\ decorations[k].widget = "")

\* C12 as stated: every line that begins with the @published prefix (in any
\* case) is fully suppressed.
C12_Original ==
    SuppressedWherever(BeginsWithPublished)

\* a metadata line inside an open code fence with the caret on it, suppressed
C12_Witness ==
    LET lines == Lines(doc)
    IN  \E i \in 2..Len(lines) :
            /\ BeginsWithPublishedSpace(lines[i].text)
            /\ WalkerStateAt(lines, i, cursorPos, hasPublish, blogs).inCodeBlock
            /\ cursorPos = lines[i].from /\ head = cursorPos
            /\ rebuilt /\ ~crashed
            /\ HasDeco(decorations, LineDeco("cm-hidden-line", 0, lines[i].from))
            /\ HasDeco(decorations,
                       Replace("", 0, FALSE, FALSE, NoText, NoText, lines[i].from, lines[i].to))

----------------------------------------------------------------------------
(* C13: the indent of a list item.                                         *)

\* the offsets parseListElement is asked to parse a line at
MaxLineFrom == 3

\* text is n whitespace characters, a bullet and at least one whitespace character
IsBulletLine(text, n) ==
    /\ Len(text) >= n + 2
    /\ \A k \in 1..n : text[k] \in Whitespace
    /\ text[n + 1] \in {"-", "*", "+"}
    /\ text[n + 2] \in Whitespace

\* text is n whitespace characters, digits, a dot and at least one whitespace character
IsNumberLine(text, n) ==
    /\ \A k \in 1..n : k <= Len(text) /\ text[k] \in Whitespace
    /\ \E d \in 1..Len(text) :
          /\ Len(text) >= n + d + 2
          /\ \A k \in (n + 1)..(n + d) : text[k] \in Digits
          /\ text[n + d + 1] = "."
          /\ text[n + d + 2] \in Whitespace

\* the offset just after the whitespace that starts at offset a of text
AfterSpaces(text, a) ==
    CHOOSE m \in a..Len(text) :
        /\ \A k \in (a + 1)..m : text[k] \in Whitespace
        /\ m < Len(text) => text[m + 1] \notin Whitespace

\* a task box and at least one whitespace character at offset m of text
IsTaskBoxAt(text, m) ==
    /\ Len(text) >= m + 4
    /\ text[m + 1] = "[" /\ text[m + 2] \in {" ", "x", "X"} /\ text[m + 3] = "]"
    /\ text[m + 4] \in Whitespace

\* C13: for a line of n leading whitespace characters, a bullet and at least
\* one space, parseListElement returns a list element of indent n whose marker
\* starts n after the line start; it is a task item when a task box follows
\* (the task form goes first), its marker then ending after the spaces that
\* follow the box, and else an unordered item whose marker ends just after the
\* spaces that follow the bullet; a numbered line is an ordered item; and the
\* walker gives an unordered item the bullet line class with that indent.
C13_ListIndent ==
    /\ \A lineFrom \in 0..MaxLineFrom : \A n \in 0..Len(doc) :
          IsBulletLine(doc, n) =>
              LET el == parseListElement(doc, lineFrom)
                  m == AfterSpaces(doc, n + 1)
              IN  /\ el.type = "list"
                  /\ el.indent = n
                  /\ el.markerFrom = lineFrom + n
                  /\ el.from = lineFrom /\ el.to = lineFrom + Len(doc)
                  /\ IF IsTaskBoxAt(doc, m)
                     THEN /\ el.listType = "task"
                          /\ el.markerTo = lineFrom + AfterSpaces(doc, m + 3)
                          /\ el.checked = (doc[m + 2] \in {"x", "X"})
                     ELSE /\ el.listType = "ul"
                          /\ el.markerTo = lineFrom + m
    /\ \A n \in 0..Len(doc) :
          IsNumberLine(doc, n) => parseListElement(doc, 0).listType = "ol"
    /\ \A n \in 0..Len(doc) :
          (IsBulletLine(doc, n) /\ ~IsTaskBoxAt(doc, AfterSpaces(doc, n + 1)) /\ ~crashed)
              => HasDeco(decorations, LineDeco("cm-list-bullet", n, 0))

\* the note of two spaces, a dash, a space and an item: indent 2, marker [2, 4)
C13_Witness ==
    /\ doc = <<" ", " ", "-", " ", "a">>
    /\ parseListElement(doc, 0).indent = 2
    /\ parseListElement(doc, 0).listType = "ul"
    /\ parseListElement(doc, 0).markerFrom = 2
    /\ parseListElement(doc, 0).markerTo = 4
    /\ HasDeco(decorations, LineDeco("cm-list-bullet", 2, 0))
    /\ head = 5

----------------------------------------------------------------------------
(* C14: line-granular reveal after any sequence of events.                 *)

\* the annotations a pass with the given cursor puts on the line
PassOn(line, cursor) ==
    DecosOn(createDecorations(doc, cursor, hasPublish, blogs), line)

\* the line is one the walker annotates differently when the cursor is on it,
\* wherever on it: a header marker, a sentinel, a fence line, a horizontal
\* rule, an image line, an @field line
Revealable(line) ==
    \A c \in line.from..line.to : PassOn(line, c) # PassOn(line, -1)

\* the annotations in effect on the line are those of a pass with the cursor on it
ShownAsCaretLine(line) ==
    \E c \in line.from..line.to : DecosOn(decorations, line) = PassOn(line, c)

\* C14: in every reachable state, from the creation of the editor on, the
\* annotations in effect treat a line as the caret line (its raw form) if and
\* only if the caret is on that line.
C14_LineReveal ==
    ~crashed =>
        LET lines == Lines(doc)
        IN  \A i \in 1..Len(lines) :
                Revealable(lines[i]) =>
                    (ShownAsCaretLine(lines[i]) <=> LineNumberAt(doc, head) = i)

----------------------------------------------------------------------------
(* C15: sentinel pairing by parity.                                        *)

\* the number of sentinel lines among the first i lines
SentinelsUpTo(lines, i) == Cardinality({j \in 1..i : IsSentinel(lines, j)})

\* out replaces the whole line by the named widget and does nothing else
ReplacesLineBy(out, widget, line) ==
    /\ Len(out) = 1
    /\ out[1].kind = "replace" /\ out[1].widget = widget
    /\ out[1].from = line.from /\ out[1].to = line.to

\* C15: scanning the note top to bottom, whatever the cursor offset, the k-th
\* sentinel line opens the custom block when k is odd (the walker is then in
\* the block and in its front-matter) and closes it when k is even (the walker
\* is then in neither), whatever the fence and pseudo-post state; the line is
\* replaced by the header widget (opening) or the rule widget (closing) exactly
\* when the cursor is not on it; and no other line changes the block state.
C15_SentinelParity ==
    LET lines == Lines(doc)
    IN  \A cursor \in PassCursors : \A i \in 1..Len(lines) :
            LET st == WalkerStateAt(lines, i, cursor, hasPublish, blogs)
                r == WalkLine(st, lines, i, cursor, hasPublish, blogs)
                onLine == cursor >= lines[i].from /\ cursor <= lines[i].to
                opening == SentinelsUpTo(lines, i) % 2 = 1
            IN  IF IsSentinel(lines, i)
                THEN /\ r.st.inBlogBlock = opening
                     /\ r.st.inBlogFrontmatter = opening
                     /\ st.inBlogBlock = ~opening
                     /\ IF onLine THEN r.out = <<>>
                        ELSE ReplacesLineBy(r.out, IF opening THEN "BlogBlockHeaderWidget"
                                                   ELSE "SimpleTextWidget", lines[i])
                ELSE r.st.inBlogBlock = st.inBlogBlock

\* a second sentinel that lies inside an open code fence closes the block; the
\* caret is on another line, so the rule widget is in effect on it
C15_Witness ==
    LET lines == Lines(doc)
    IN  \E i \in 1..Len(lines) :
            /\ IsSentinel(lines, i)
            /\ SentinelsUpTo(lines, i) = 2
            /\ WalkerStateAt(lines, i, cursorPos, hasPublish, blogs).inCodeBlock
            /\ ~crashed /\ rebuilt /\ cursorPos >= 0
            /\ LineNumberAt(doc, cursorPos) # i
            /\ HasDeco(decorations,
                       Replace("SimpleTextWidget", 0, FALSE, FALSE, TripleEquals, NoText,
                               lines[i].from, lines[i].to))

----------------------------------------------------------------------------
(* C16: no annotation in the front-matter of a custom block.               *)

\* line i lies in the front-matter of a custom block: after an opening
\* sentinel, with no sentinel and fewer than two --- lines in between
InFrontmatter(lines, i) ==
    \E j \in 1..(i - 1) :
        /\ IsOpening(lines, j)
        /\ \A k \in (j + 1)..(i - 1) : ~IsSentinel(lines, k)
        /\ Cardinality({k \in (j + 1)..(i - 1) : Trim(lines[k].text) = TripleDash}) < 2

\* line i is taken by a step that goes before the front-matter step: it is a
\* metadata line, an @field line of a pseudo-post that is still open, a fence
\* line, or a line inside an open code fence
TakenBeforeFrontmatter(lines, i, st) ==
    \/ BeginsWithPublishedSpace(lines[i].text)
    \/ st.inAtPost /\ IsAtField(lines[i].text)
    \/ StartsWith(lines[i].text, Fence)
    \/ st.inCodeBlock

\* every front-matter line picked by Reaches gets no annotation from the
\* walker, whatever the cursor offset, and has none in effect
FrontmatterRaw(Reaches(_, _, _)) ==
    LET lines == Lines(doc)
    IN  \A i \in 1..Len(lines) :
            LET st == WalkerStateAt(lines, i, -1, hasPublish, blogs)
            IN  (InFrontmatter(lines, i) /\ ~IsSentinel(lines, i) /\ Reaches(lines, i, st)) =>
                    /\ st.inBlogFrontmatter
                    /\ \A cursor \in PassCursors :
                          WalkLine(WalkerStateAt(lines, i, cursor, hasPublish, blogs),
                                   lines, i, cursor, hasPublish, blogs).out = <<>>
                    /\ ~crashed => DecosOn(decorations, lines[i]) = <<>>

\* C16 (amended): a line the walker processes in the front-matter of a custom
\* block gets no annotation at all, whatever the cursor offset, unless a step
\* that goes before the front-matter step takes it (metadata line, @field
\* line of an open pseudo-post, fence line, line inside an open code fence).
C16_FrontmatterRaw ==
    FrontmatterRaw(LAMBDA lines, i, st : ~TakenBeforeFrontmatter(lines, i, st))

\* C16 as stated: every line in the front-matter gets no annotation.
C16_Original ==
    FrontmatterRaw(LAMBDA lines, i, st : TRUE)

\* a header line in the front-matter of a block, the caret on it, no annotation on it
C16_Witness ==
    LET lines == Lines(doc)
    IN  \E i \in 1..Len(lines) :
            /\ InFrontmatter(lines, i)
            /\ lines[i].text = <<"#", " ", "x">>
            /\ ~TakenBeforeFrontmatter(lines, i,
                                       WalkerStateAt(lines, i, cursorPos, hasPublish, blogs))
            /\ cursorPos = lines[i].from /\ head = cursorPos
            /\ ~crashed /\ rebuilt
            /\ Len(decorations) > 0
            /\ DecosOn(decorations, lines[i]) = <<>>

----------------------------------------------------------------------------
(* C17: lines inside a code fence are only styled.                         *)

\* line i lies strictly inside a code fence: it is no fence line and an odd
\* number of fence lines lies above it
InsideFence(lines, i) ==
    /\ ~StartsWith(lines[i].text, Fence)
    /\ Cardinality({k \in 1..(i - 1) : StartsWith(lines[k].text, Fence)}) % 2 = 1

\* the annotation hides or replaces text
HidesOrReplaces(d) ==
    \/ d.kind = "replace"
    \/ d.class \in {"cm-hidden-marker", "cm-hidden-line"}

\* C17: for every cursor offset the pass returns, every line strictly inside a
\* code fence gets the code-block style over its content and no annotation that
\* hides or replaces, whatever its text, and the fence state changes on the
\* lines that start with three backquotes and on no other line.
C17_FenceOnlyStyled ==
    LET lines == Lines(doc)
    IN  \A cursor \in -1..Len(doc) :
            /\ createDecorations(doc, cursor, hasPublish, blogs) # Thrown
            /\ \A i \in 1..Len(lines) :
                  LET st == WalkerStateAt(lines, i, cursor, hasPublish, blogs)
                      r == WalkLine(st, lines, i, cursor, hasPublish, blogs)
                  IN  /\ (r.st.inCodeBlock # st.inCodeBlock) <=> StartsWith(lines[i].text, Fence)
                      /\ InsideFence(lines, i) =>
                            /\ st.inCodeBlock
                            /\ lines[i].from < lines[i].to =>
                                  HasDeco(r.out, Mark("cm-code-block-line",
                                                      lines[i].from, lines[i].to))
                            /\ \A k \in 1..Len(r.out) : ~HidesOrReplaces(r.out[k])

----------------------------------------------------------------------------
(* C18: the gate of the pseudo-post opener.                                *)

\* text has the form @<name> post: an @, a name, whitespace, the word post
\* and nothing but whitespace after it; q is the offset of the word
HasOpenerFormAt(text, q) ==
    /\ q >= 3 /\ q + 4 <= Len(text)
    /\ text[1] = "@"
    /\ text[q] \in Whitespace
    /\ SubSeq(text, q + 1, q + 4) = Word_post
    /\ \A k \in (q + 5)..Len(text) : text[k] \in Whitespace

HasOpenerForm(text) == \E q \in 1..Len(text) : HasOpenerFormAt(text, q)

\* the name of a line of that form: what lies between the @ and the last
\* whitespace character before the word post
OpenerName(text) ==
    LET q == CHOOSE k \in 1..Len(text) : HasOpenerFormAt(text, k)
    IN  SubSeq(text, 2, q - 1)

\* the publish widgets among the annotations
Rockets(out) == {d \in Range(out) : d.widget = "AtPostRocketWidget"}

\* the cursor offsets that tell the lines of d apart: the value before the
\* first selection and the two ends of every line
LineEndCursors(d) ==
    {-1} \cup LineStarts(d) \cup {Lines(d)[k].to : k \in 1..Len(Lines(d))}

\* C18: whatever the cursor offset, with the registry of the editor and with
\* no registry: a line starts a pseudo-post
\* only if it has the form @<name> post, its name is in the registry and the
\* walker is not inside a pseudo-post already; a line of that form whose name
\* is not in the registry starts none and gets no publish widget; a publish
\* widget is emitted only on a line that starts a pseudo-post, with a publish
\* callback, and the cursor off that line; and a line of that form with a
\* name of the registry, met outside pseudo-post, custom block and code fence,
\* does start one.
C18_OpenerGate ==
    LET lines == Lines(doc)
    IN  \A cursor \in PassCursors : \A registry \in {{}, blogs} :
        \A i \in 1..Len(lines) :
            LET onPublish == hasPublish
                st == WalkerStateAt(lines, i, cursor, onPublish, registry)
                r == WalkLine(st, lines, i, cursor, onPublish, registry)
                text == lines[i].text
                starts == r.st.inAtPost /\ r.st.atPostStartLine = i
                onLine == cursor >= lines[i].from /\ cursor <= lines[i].to
            IN  /\ starts => /\ HasOpenerForm(text)
                             /\ OpenerName(text) \in registry
                             /\ ~st.inAtPost
                             /\ r.st.atPostBlogName = OpenerName(text)
                /\ (HasOpenerForm(text) /\ OpenerName(text) \notin registry) =>
                        ~starts /\ Rockets(r.out) = {}
                /\ (~st.inAtPost /\ r.st.inAtPost) => starts
                /\ Rockets(r.out) # {} => starts /\ onPublish /\ ~onLine
                /\ (starts /\ onPublish /\ ~onLine) =>
                        \E d \in Rockets(r.out) : d.from = lines[i].to /\ d.num = i
                /\ (/\ HasOpenerForm(text) /\ OpenerName(text) \in registry
                    /\ ~st.inAtPost /\ ~st.inBlogBlock /\ ~st.inCodeBlock) => starts

\* a note with an opener of a registry name and, below a --- line, an opener
\* of another name; a publish callback; the caret on the last line: the
\* publish widget is in effect on the first line and no other
C18_Witness ==
    LET lines == Lines(doc)
    IN  /\ Len(lines) = 3
        /\ lines[1].text = <<"@", "b", " ">> \o Word_post
        /\ lines[2].text = TripleDash
        /\ lines[3].text = <<"@", "c", " ">> \o Word_post
        /\ hasPublish /\ ~crashed /\ rebuilt
        /\ cursorPos = lines[3].from
        /\ Cardinality(Rockets(decorations)) = 1
        /\ \E d \in Rockets(decorations) : d.from = lines[1].to

----------------------------------------------------------------------------
(* C19: the exit of a pseudo-post.                                         *)

\* the line is a header line: 1 to 6 # characters followed by whitespace
IsHeaderLine(text) == \E n \in 1..6 : IsHashesThenSpace(text, n)

\* the line is a valid opener: of the form @<name> post with a registry name
IsValidOpener(text, registry) ==
    HasOpenerForm(text) /\ OpenerName(text) \in registry

\* the line is one of those said to close a pseudo-post
IsCloser(text, registry) ==
    \/ Trim(text) = TripleDash
    \/ IsHeaderLine(text)
    \/ IsValidOpener(text, registry)

\* C19: for every line the walker meets inside a pseudo-post: a --- line and a
\* header line close the pseudo-post, and a new valid opener closes it and
\* starts a pseudo-post of its own on that line; any other line, a line that
\* begins with # and a letter left aside, leaves the pseudo-post open.
C19_AtPostExit ==
    LET lines == Lines(doc)
    IN  \A cursor \in LineEndCursors(doc) : \A i \in 1..Len(lines) :
            LET st == WalkerStateAt(lines, i, cursor, hasPublish, blogs)
                r == WalkLine(st, lines, i, cursor, hasPublish, blogs)
                text == lines[i].text
            IN  st.inAtPost =>
                    IF IsValidOpener(text, blogs)
                    THEN r.st.inAtPost /\ r.st.atPostStartLine = i
                    ELSE IF IsCloser(text, blogs)
                    THEN ~r.st.inAtPost
                    ELSE IF IsHashLetter(text)
                    THEN TRUE
                    ELSE r.st.inAtPost /\ r.st.atPostStartLine = st.atPostStartLine

----------------------------------------------------------------------------
(* C20: pseudo-post and custom block do not nest.                          *)

\* C20: in no scan state the walker reaches on the note are the pseudo-post
\* state and the custom-block state both active; an opener inside a custom
\* block starts no pseudo-post.
C20_NoNesting ==
    LET lines == Lines(doc)
    IN  \A cursor \in LineEndCursors(doc) : \A i \in 1..Len(lines) :
            LET st == WalkerStateAt(lines, i, cursor, hasPublish, blogs)
                r == WalkLine(st, lines, i, cursor, hasPublish, blogs)
            IN  /\ ~(r.st.inAtPost /\ r.st.inBlogBlock)
                /\ (st.inBlogBlock /\ ~IsSentinel(lines, i) /\ ~st.inAtPost) => ~r.st.inAtPost

----------------------------------------------------------------------------
(* C21: the marker suppression rule within one pass.                       *)

\* a line that reaches the inline step of the walker from the initial scan
\* state: not a metadata line, a sentinel, an @field line, a fence line, a
\* blank line, a horizontal rule or an image
ReachesInlineStep(text) ==
    /\ ~BeginsWithPublishedSpace(text)
    /\ Trim(text) # TripleEquals
    /\ ~IsAtField(text)
    /\ ~StartsWith(text, Fence)
    /\ Trim(text) # <<>>
    /\ ~IsHorizontalRule(text)
    /\ ~IsImage(text)

\* the style annotation of the content of an inline span
StyledContent(out, el) ==
    \E d \in Range(out) :
        /\ d.kind = "mark" /\ d.class = InlineClass(el.type)
        /\ d.from = el.openMarker.to /\ d.to = el.closeMarker.from

\* the non-empty marker ranges of an inline span
MarkerRanges(el) == {m \in {el.openMarker, el.closeMarker} : m.from < m.to}

\* some suppress annotation lies within the range of the span
SuppressedWithin(out, el) ==
    \E d \in Range(out) :
        d.class = "cm-hidden-marker" /\ d.from >= el.from /\ d.to <= el.to

\* C21: in the pass for the cursor offset of the state, for every inline span
\* of the first line that is not a tag, each non-empty marker range has a
\* suppress annotation if and only if the cursor offset lies outside
\* [from, to] of the span, and non-empty content between the markers has its
\* style annotation in both cases; a tag span has no suppress annotation
\* within its range wherever the cursor is.
C21_MarkerSuppression ==
    LET line == Lines(doc)[1]
        out == createDecorations(doc, cursorPos, hasPublish, blogs)
    IN  ReachesInlineStep(line.text) =>
            \A el \in Range(parseInlineElements(line.text, line.from)) :
                IF el.type = "tag"
                THEN ~SuppressedWithin(out, el)
                ELSE /\ \A m \in MarkerRanges(el) :
                            Hidden(out, m.from, m.to) <=> ~Within(cursorPos, el)
                     /\ el.openMarker.to < el.closeMarker.from => StyledContent(out, el)

\* the caret was moved from the empty line into a closed strikethrough span
\* that has a tag after it: the pass ran, the markers of the span are not
\* suppressed, its content is styled
C21_Witness ==
    LET line == Lines(doc)[1]
    IN  /\ rebuilt /\ ~crashed /\ selectionSet /\ ~docChanged
        /\ \E el \in Range(parseInlineElements(line.text, line.from)) :
              /\ el.type = "strikethrough" /\ IsClosed(el)
              /\ Within(cursorPos, el)
              /\ ~Hidden(decorations, el.openMarker.from, el.openMarker.to)
              /\ ~Hidden(decorations, el.closeMarker.from, el.closeMarker.to)
              /\ StyledContent(decorations, el)
        /\ \E el \in Range(parseInlineElements(line.text, line.from)) : el.type = "tag"

----------------------------------------------------------------------------
(* C22: no double counting by the unclosed detection.                      *)

\* the kinds of span that have an unclosed form
SpanKinds == {"bold", "italic", "strikethrough", "code"}

\* an unclosed span: one of those kinds with an empty close marker
IsUnclosed(el) == el.type \in SpanKinds /\ ~IsClosed(el)

\* the character the opening marker of a span is made of
MarkerChar(text, lineFrom, el) == At(text, el.from - lineFrom)

\* no two spans of els picked by Same overlap
NoOverlapAmong(els, Same(_, _)) ==
    \A k, l \in 1..Len(els) :
        (k < l /\ els[k].type \in SpanKinds /\ Same(els[k], els[l])) => ~Overlap(els[k], els[l])

\* an unclosed span starts at a marker no closed span of its kind covers, and
\* there is at most one unclosed span of each kind
UnclosedOnlyUncovered(els) ==
    /\ \A k, l \in 1..Len(els) :
          (IsUnclosed(els[k]) /\ IsClosed(els[l]) /\ els[l].type = els[k].type)
              => ~(els[l].from <= els[k].from /\ els[l].to >= els[k].from)
    /\ \A k, l \in 1..Len(els) :
          (k < l /\ IsUnclosed(els[k]) /\ IsUnclosed(els[l])) => els[k].type # els[l].type

\* C22 (amended): for the line of the note, parseInlineElements returns no two
\* spans of the same kind (bold, italic, strikethrough, code) made of the same
\* marker character whose ranges overlap; an unclosed span is returned only
\* for a marker that no closed span of its kind covers, and at most one
\* unclosed span per kind.  Spans of one kind made of asterisks and of
\* underscores may overlap, an unclosed one and a closed one included.
C22_NoDoubleCounting ==
    LET els == parseInlineElements(doc, 0)
    IN  /\ NoOverlapAmong(els, LAMBDA a, b : a.type = b.type
                                             /\ MarkerChar(doc, 0, a) = MarkerChar(doc, 0, b))
        /\ UnclosedOnlyUncovered(els)

\* C22 as stated: no two spans of the same kind overlap, whatever their
\* marker characters.
C22_Original ==
    LET els == parseInlineElements(doc, 0)
    IN  /\ NoOverlapAmong(els, LAMBDA a, b : a.type = b.type)
        /\ UnclosedOnlyUncovered(els)

\* a closed italic span covers a marker that the unclosed italic pattern
\* matches with content after it: the closed span is the only span returned
C22_Witness ==
    /\ rebuilt /\ ~crashed
    /\ \E i \in 0..(Len(doc) - 1) :
          /\ UnclosedItalicLen(doc, i) > 0
          /\ Len(doc) - i > 1
          /\ \E el \in Range(parseInlineElements(doc, 0)) :
                el.type = "italic" /\ IsClosed(el) /\ el.from < i /\ el.to >= i
    /\ Len(parseInlineElements(doc, 0)) = 1

----------------------------------------------------------------------------
(* C23: the debounced persistence loses no edit.                           *)

\* C23: whenever the document differs from the content of the latest onSave
\* call, an onSave call that carries the document of its moment follows (or
\* the document comes back to the content last handed over).
C23_NoEditLost == (doc # lastOnSave) ~> (doc = lastOnSave)

----------------------------------------------------------------------------
(* C24: the cursor offset seen by the walker is current.                   *)

\* C24: whenever the last update (or the constructor) ran the walker, the
\* cursor offset it read (the cursor position field) is the selection head
\* of the editor state.
C24_CursorCurrent == rebuilt => cursorPos = head

----------------------------------------------------------------------------
(* C25: no empty mark range.                                               *)

\* the mark annotations a pass builds, in push order, before the host sorts them
MarksBuilt(d, cursor) ==
    SelectSeq(Pushed(d, cursor, hasPublish, blogs), LAMBDA x : x.kind = "mark")

\* C25: every mark annotation the walker builds for the note, for the cursor
\* offset of the state and for the offset before the first selection, covers
\* a non-empty range.
C25_NoEmptyMark ==
    \A cursor \in {-1, cursorPos} :
        \A m \in Range(MarksBuilt(doc, cursor)) : m.from < m.to

----------------------------------------------------------------------------
(* C26: a list bullet is not an inline marker.                             *)

\* C26: when the line of the note is a list item, no inline span that
\* parseInlineElements returns for it has a non-empty opening marker that
\* starts inside the marker range of the list item.
C26_BulletNotInline ==
    LET listEl == parseListElement(doc, 0)
    IN  listEl # NoElement =>
            \A el \in Range(parseInlineElements(doc, 0)) :
                ~(/\ el.openMarker.from < el.openMarker.to
                  /\ el.openMarker.from >= listEl.markerFrom
                  /\ el.openMarker.from < listEl.markerTo)

----------------------------------------------------------------------------
(* C27: isInsideBlogBlock agrees with the walker.                          *)

\* line i is strictly between an opening === and its closing ===, the
\* sentinels paired by their count from the top of the note
StrictlyInsideBlock(lines, i) ==
    /\ ~IsSentinel(lines, i)
    /\ SentinelsUpTo(lines, i) % 2 = 1
    /\ \E j \in (i + 1)..Len(lines) : IsSentinel(lines, j)

\* line i is outside all custom blocks
OutsideBlocks(lines, i) ==
    ~IsSentinel(lines, i) /\ SentinelsUpTo(lines, i) % 2 = 0

\* C27: isInsideBlogBlock is true at the start and at the end of every line
\* strictly inside a custom block, the first of the note or a later one, and
\* false on every line outside all custom blocks.
C27_InsideAgreesWithWalker ==
    LET lines == Lines(doc)
    IN  \A i \in 1..Len(lines) : \A pos \in {lines[i].from, lines[i].to} :
            /\ StrictlyInsideBlock(lines, i) => isInsideBlogBlock(doc, pos)
            /\ OutsideBlocks(lines, i) => ~isInsideBlogBlock(doc, pos)

----------------------------------------------------------------------------
(* C28 *)

\* the custom blocks of the publishing scenarios are told apart by their body
\* line: the bodies of the blocks of d that have a published: true line
\* between their header and their body
MarkedBodies(d) ==
    LET lines == Lines(d)
    IN  {lines[j].text : j \in
            {j \in 1..Len(lines) :
                /\ lines[j].text \in {<<"x">>, <<"y">>}
                /\ \E p \in 1..j :
                      /\ IsPublishedTrue(Trim(lines[p].text))
                      /\ \A q \in p..j : Trim(lines[q].text) # TripleEquals}}

\* the body line of the block whose widget was clicked: the last line of the
\* content that was sent to the publish call
ClickedBody == <<pending.content[Len(pending.content)]>>

\* C28: when the publish call of a clicked custom block succeeds, the handler
\* runs to its end and the blocks with a published: true line are afterwards
\* those that had one and the block that was clicked, whatever lines were
\* inserted or removed while the call was outstanding.
C28_PublishMarksClicked ==
    [][(pending.kind = "block" /\ pending'.kind \notin {"block", "failed"})
          => /\ pending'.kind = "succeeded"
             /\ MarkedBodies(doc') = MarkedBodies(doc) \cup {ClickedBody}]_vars

----------------------------------------------------------------------------
(* C29 *)

\* the published: true lines of the custom block around line blockLine, and
\* the @published lines of the pseudo-post opened on line blockLine
BlockMarkers(d, blockLine) ==
    LET lines == Lines(d)
        b == findBlogBlockBoundaries(d, lines[blockLine].from)
    IN  {j \in (b.start + 1)..(b.end - 1) : IsPublishedTrue(Trim(lines[j].text))}

AtPostMarkers(d, blockLine) ==
    LET lines == Lines(d)
    IN  {j \in (blockLine + 1)..AtPostLastLine(lines, blockLine) :
            IsPublishedField(lines[j].text)}

\* the walker classifies the block or the pseudo-post of line blockLine as published
ClassifiedPublished(d, kind, blockLine) ==
    IF kind = "block" THEN BlockIsPublished(Lines(d), blockLine + 1)
    ELSE AtPostIsPublished(Lines(d), blockLine + 1)

\* a step in which a successful publish runs to its end
PublishDone == pending.kind \in {"block", "post"} /\ pending'.kind = "succeeded"

\* C29: after a successful publish, the first or a later one, with no other
\* edits, the custom block has exactly one published: true line (the
\* pseudo-post exactly one @published line) and the walker classifies it as
\* published.
C29_MarkerOnce ==
    [][PublishDone =>
          /\ Cardinality(IF pending.kind = "block"
                         THEN BlockMarkers(doc', pending.blockLine)
                         ELSE AtPostMarkers(doc', pending.blockLine)) = 1
          /\ ClassifiedPublished(doc', pending.kind, pending.blockLine)]_vars

----------------------------------------------------------------------------
(* C30 *)

\* C30: whenever the debounced save has set the saving flag, the flag is
\* eventually false again, whether onSave resolves or rejects, as long as the
\* editor stays mounted.
C30_SavingFlagCleared == (mounted /\ isSaving) ~> (~isSaving \/ ~mounted)

====
